---- MODULE Spec2Model ----
(***************************************************************************)
(* Model of the connection pool of src/src/database.hpp: ConnectionPool    *)
(* (constructor, Acquire, Release), the RAII handle Connection and its     *)
(* destructor, driven by threads that each run the body of                 *)
(* PostgresDatabase::ExecuteQuery (acquire a handle, use it, destroy it).  *)
(* Every critical section is split at the points where the mutex changes   *)
(* hands; the condition variable is the set of threads blocked in wait.    *)
(*                                                                         *)
(*   Spec      every interleaving of the threads, no faults                *)
(*   FairSpec  Spec under fair scheduling                                  *)
(*   SpecRace  Spec plus a second thread entering a running destructor     *)
(*   SpecFault Spec plus exceptions in Release and teardown of the pool    *)
(*                                                                         *)
(* and model of the server as main (src/src/app.cpp) wires it: the startup *)
(* sequence, Server (accept loop) and Session (read, GetCount, write), all *)
(* run by the one thread of the event loop, which makes its Data Service   *)
(* calls through the pool above.                                           *)
(*                                                                         *)
(*   SpecServer       accept, read and write errors, the store never fails *)
(*   SpecServerFault  SpecServer plus failures of the store and of startup *)
(*                                                                         *)
(* and models of the Data Service called by several threads at once        *)
(* (PostgresDatabase::Initialize, MarkVisit, GetCount), of the             *)
(* configuration lookups of ConfigManager (src/src/config.hpp) and of its  *)
(* placeholder resolution ResolveNested.                                   *)
(*                                                                         *)
(*   SpecStore        clients calling the Data Service through the pool    *)
(*   SpecStoreAny     SpecStore plus a count query that yields no row      *)
(*   SpecConfig       one option loaded, read and turned into a pool size  *)
(*   SpecResolve      ResolveNested on every pair of maps within bounds    *)
(*   FairSpecResolve  SpecResolve in which the run always takes its step   *)
(***************************************************************************)
EXTENDS Integers, Sequences, FiniteSets, TLC

\* ---------------------------------------------------------------- bounds
NumThreads == 3
MaxPoolSize == 2
MaxRaces == 1
MaxSessions == 3
NumClients == 2
MaxCalls == 4
MaxTextLen == 2
MaxNumConnections == 2
MaxTokens == 2
MaxEnvTokens == 1
MaxResultLen == 8
MaxPuts == 2

\* ------------------------------------------------------------- constants
NULL == 0
NoThread == 0

NoSession == 0
LoopThread == 1
NoValue == -1
kDefaultCentralServerPort == 8000
kDefaultConnectionPoolSize == 10
LimbBase == 65536
HelloLength == 22

Threads == 1..NumThreads
Resources == 1..MaxPoolSize
Sessions == 1..MaxSessions
Clients == 1..NumClients
Operations == {"Initialize", "MarkVisit", "GetCount"}

VARIABLES
    poolState,     \* "none" | "constructing" | "ready" | "failed" | "destroyed"
    size_,         \* ConnectionPool::size_
    connections_,  \* ConnectionPool::connections_ (front is index 1)
    mutex_,        \* ConnectionPool::mutex_: the owning thread or NoThread
    cvWaiters,     \* threads blocked inside cv_.wait
    pc,            \* position of every thread
    conn_,         \* Connection::conn_ of the handle that thread t owns
    relArg,        \* parameter conn of the Release call thread t executes
    dtorOf,        \* the handle (by owner) whose destructor thread t runs
    idleOrder,     \* history: idle resources, longest idle first
    pushes,        \* history: pushes made for the handle of thread t while it lives
    races,         \* history: concurrent destructor entries so far
    diag,          \* TRUE once a diagnostic was written to std::cout
    crashed,       \* TRUE once the process was brought down
    mainPc,        \* position of the thread that runs main and the event loop
    cur,           \* the connection whose completion handler is running
    ec,            \* error code passed to the running completion handler
    op,            \* the Data Service operation in progress, or "none"
    txn,           \* the pqxx::work of the ExecuteQuery in progress
    exc,           \* TRUE while an exception is propagating
    acceptPending, \* number of armed async_accept operations
    accepted,      \* number of connections accepted so far
    life,          \* per connection: "unborn" | "alive" | "destroyed" Session object
    refs,          \* per connection: owners of the Session (shared_ptr use count)
    pendingOp,     \* per connection: "none" | "read" | "write" operation in flight
    schema,        \* TRUE once the table visits exists
    visits,        \* number of rows of the table visits
    opLog,         \* history: transaction steps of the operation in progress
    slog,          \* history: per connection, the steps taken for it
    everArmed,     \* history: TRUE once an async_accept was issued
    startupFailed, \* history: TRUE once an exception was thrown during startup
    call,          \* per client thread: the Data Service operation it runs, or "none"
    work,          \* per client thread: the pqxx::work of its ExecuteQuery
    res,           \* per client thread: the pqxx::result of its statement
    ret,           \* per client thread: the value its last GetCount returned
    fail,          \* per client thread: TRUE while its call is leaving by an exception
    calls,         \* history: operations called so far
    marksDone,     \* history: MarkVisit calls that returned normally
    initsDone,     \* history: Initialize calls that returned normally
    atCall,        \* history: per client thread, marksDone and maxRet when it called,
                   \* and whether no MarkVisit of another thread overlaps its call
    maxRet,        \* history: the largest value a GetCount returned so far
    cfgPc,         \* position of the configuration run: "load" | "loaded" | "got" | "sized",
                   \* or "put" once Put has been called
    cfgIn,         \* its inputs: the option, its configured text if any, num_connections
    vm_,           \* ConfigManager::vm_: per option the stored boost::any
    got,           \* the value GetInt returned
    sizeArg,       \* the size PostgresDatabase passes to ConnectionPool, as uint64_t
    puts,          \* history: the name and value of every call of Put, in order
    qres,          \* the pqxx::result of the statement that the event loop executed
    visit_count,   \* DoWrite: the value GetCount returned
    response,      \* per connection: the response handed to async_write, or <<>>
    buffer,        \* per connection: boost::asio::buffer(response), the memory the
                   \* write reads: "none" | "valid" | "dangling"
    sent,          \* per connection: the bytes the write has put on the wire, or <<>>
    rpc,           \* position of the ResolveNested run
    map_env,       \* ResolveNested: its parameter map_env
    map_file,      \* ResolveNested: its parameter map_file
    map_full,      \* ResolveNested: map_full
    map_resolved,  \* ResolveNested: map_resolved
    processing,    \* ResolveNested: processing
    todo,          \* the keys that the final loop over map_full has yet to visit
    stack,         \* the active calls of resolve: key, value and result of each
    retval         \* the value that the call of resolve which just ended returned

vars == <<poolState, size_, connections_, mutex_, cvWaiters, pc, conn_, relArg,
          dtorOf, idleOrder, pushes, races, diag, crashed,
          mainPc, cur, ec, op, txn, exc, acceptPending, accepted, life, refs,
          pendingOp, schema, visits, opLog, slog, everArmed, startupFailed,
          call, work, res, ret, fail, calls, marksDone, initsDone,
          atCall, maxRet, cfgPc, cfgIn, vm_, got, sizeArg, puts,
          qres, visit_count, response, buffer, sent,
          rpc, map_env, map_file, map_full, map_resolved, processing, todo,
          stack, retval>>

poolVars == <<poolState, size_, connections_, mutex_, cvWaiters>>
histVars == <<idleOrder, pushes, races>>
faultVars == <<diag, crashed>>
loopVars == <<mainPc, cur, ec>>
callVars == <<op, txn, exc, opLog>>
netVars == <<acceptPending, accepted, life, refs, pendingOp>>
storeVars == <<schema, visits>>
srvHist == <<slog, everArmed, startupFailed>>
clientVars == <<call, work, res, ret, fail>>
clientHist == <<calls, marksDone, initsDone, atCall, maxRet>>
cfgVars == <<cfgPc, cfgIn, vm_, got, sizeArg, puts>>
respVars == <<qres, visit_count, response, buffer, sent>>
resolveVars == <<rpc, map_env, map_file, map_full, map_resolved, processing, todo,
                 stack, retval>>
extVars == <<clientVars, clientHist, cfgVars, respVars, resolveVars>>
srvVars == <<loopVars, callVars, netVars, storeVars, srvHist, extVars>>
restVars == <<poolVars, pc, conn_, relArg, dtorOf, histVars, faultVars,
              clientVars, clientHist, cfgVars, resolveVars>>
dbVars == <<restVars, respVars>>

\* ------------------------------------------------------------- helpers
Range(s) == {s[i] : i \in 1..Len(s)}

Occurrences(s, r) == Cardinality({i \in 1..Len(s) : s[i] = r})

RECURSIVE Without(_, _)
Without(s, r) ==
    IF s = <<>> THEN <<>>
    ELSE IF Head(s) = r THEN Tail(s)
    ELSE <<Head(s)>> \o Without(Tail(s), r)

ProgramInit ==
    /\ poolState = "none"
    /\ size_ = 0
    /\ connections_ = <<>>
    /\ mutex_ = NoThread
    /\ cvWaiters = {}
    /\ pc = [t \in Threads |-> "idle"]
    /\ conn_ = [t \in Threads |-> NULL]
    /\ relArg = [t \in Threads |-> NULL]
    /\ dtorOf = [t \in Threads |-> t]
    /\ idleOrder = <<>>
    /\ pushes = [t \in Threads |-> 0]
    /\ races = 0
    /\ diag = FALSE
    /\ crashed = FALSE
    /\ mainPc = "init_config"
    /\ cur = NoSession
    /\ ec = "ok"
    /\ op = "none"
    /\ txn = "none"
    /\ exc = FALSE
    /\ acceptPending = 0
    /\ accepted = 0
    /\ life = [s \in Sessions |-> "unborn"]
    /\ refs = [s \in Sessions |-> 0]
    /\ pendingOp = [s \in Sessions |-> "none"]
    /\ schema = FALSE
    /\ visits = 0
    /\ opLog = <<>>
    /\ slog = [s \in Sessions |-> <<>>]
    /\ everArmed = FALSE
    /\ startupFailed = FALSE
    /\ call = [t \in Threads |-> "none"]
    /\ work = [t \in Threads |-> "none"]
    /\ res = [t \in Threads |-> <<>>]
    /\ ret = [t \in Threads |-> NoValue]
    /\ fail = [t \in Threads |-> FALSE]
    /\ calls = 0
    /\ marksDone = 0
    /\ initsDone = 0
    /\ atCall = [t \in Threads |-> [done |-> 0, floor |-> 0, quiet |-> TRUE]]
    /\ maxRet = 0
    /\ qres = <<>>
    /\ visit_count = 0
    /\ response = [s \in Sessions |-> <<>>]
    /\ buffer = [s \in Sessions |-> "none"]
    /\ sent = [s \in Sessions |-> <<>>]

\* no configuration run is in progress: nothing is configured or stored
ConfigIdle ==
    /\ cfgPc = "load"
    /\ cfgIn = [name |-> "CONNECTION_POOL_SIZE", present |-> FALSE, text |-> <<>>, num |-> 0]
    /\ vm_ = [n \in {"CONNECTION_POOL_SIZE", "CENTRAL_SERVER_PORT"} |->
                 [kind |-> "absent", int |-> 0, str |-> <<>>]]
    /\ got = 0
    /\ sizeArg = <<0, 0, 0, 0>>
    /\ puts = <<>>

\* ResolveNested is not running
ResolveIdle ==
    /\ rpc = "start"
    /\ map_env = <<>>
    /\ map_file = <<>>
    /\ map_full = <<>>
    /\ map_resolved = <<>>
    /\ processing = {}
    /\ todo = {}
    /\ stack = <<>>
    /\ retval = <<>>

Init == ProgramInit /\ ConfigIdle /\ ResolveIdle

\* ------------------------------------------- ConnectionPool::ConnectionPool
\* ConnectionPool(size, options) : size_(size)
CtorBegin ==
    /\ poolState = "none"
    /\ \E n \in 1..MaxPoolSize : size_' = n
    /\ poolState' = "constructing"
    /\ UNCHANGED <<connections_, mutex_, cvWaiters, pc, conn_, relArg, dtorOf>>
    /\ UNCHANGED histVars
    /\ UNCHANGED faultVars
    /\ UNCHANGED srvVars

\* one iteration of the loop: connections_.push(make_unique<connection>(options))
CtorPush ==
    /\ poolState = "constructing"
    /\ Len(connections_) < size_
    /\ connections_' = Append(connections_, Len(connections_) + 1)
    /\ idleOrder' = Append(idleOrder, Len(connections_) + 1)
    /\ UNCHANGED <<poolState, size_, mutex_, cvWaiters, pc, conn_, relArg, dtorOf>>
    /\ UNCHANGED <<pushes, races>>
    /\ UNCHANGED faultVars
    /\ UNCHANGED srvVars

\* faulty variant of CtorDone: the loop ends one iteration early (i + 1 < size_)
CtorDone_Early ==
    /\ poolState = "constructing"
    /\ ~(Len(connections_) + 1 < size_)
    /\ poolState' = "ready"
    /\ UNCHANGED <<size_, connections_, mutex_, cvWaiters, pc, conn_, relArg, dtorOf>>
    /\ UNCHANGED histVars
    /\ UNCHANGED faultVars
    /\ UNCHANGED srvVars

\* the loop condition i < size_ fails: the constructor returns
CtorDone ==
    /\ poolState = "constructing"
    /\ ~(Len(connections_) < size_)
    /\ poolState' = "ready"
    /\ UNCHANGED <<size_, connections_, mutex_, cvWaiters, pc, conn_, relArg, dtorOf>>
    /\ UNCHANGED histVars
    /\ UNCHANGED faultVars
    /\ UNCHANGED srvVars

\* ------------------------------------------------------------ derived state
\* the resources a handle has not yet given back: the one in its conn_ and the
\* one travelling through the Release call made by its destructor
Held(t) == ({conn_[t]} \cup {relArg[u] : u \in {v \in Threads : dtorOf[v] = t}}) \ {NULL}

\* a handle is outstanding from its construction in Acquire until its resource
\* is back in connections_
OutstandingHandles == {t \in Threads : Held(t) # {}}

AllResources == Range(connections_) \cup UNION {Held(t) : t \in Threads}

InAcquire == {"acq_lock", "acq_wait_pred", "acq_blocked", "acq_take"}

Blocked == {t \in Threads : pc[t] = "acq_blocked"}

\* ------------------------------------------------ PostgresDatabase::ExecuteQuery
\* a caller enters ExecuteQuery: auto conn = conn_pool_.Acquire()
Call(t) ==
    /\ poolState = "ready"
    /\ pc[t] = "idle"
    /\ pc' = [pc EXCEPT ![t] = "acq_lock"]
    /\ UNCHANGED <<poolVars, conn_, relArg, dtorOf>>
    /\ UNCHANGED histVars
    /\ UNCHANGED faultVars
    /\ UNCHANGED srvVars

\* ------------------------------------------------------ ConnectionPool::Acquire
\* std::unique_lock<std::mutex> lock(mutex_)
AcquireLock(t) ==
    /\ pc[t] = "acq_lock"
    /\ mutex_ = NoThread
    /\ mutex_' = t
    /\ pc' = [pc EXCEPT ![t] = "acq_wait_pred"]
    /\ UNCHANGED <<poolState, size_, connections_, cvWaiters, conn_, relArg, dtorOf>>
    /\ UNCHANGED histVars
    /\ UNCHANGED faultVars
    /\ UNCHANGED srvVars

\* faulty variant of CvWaitCheck: the wait is missing, Acquire goes on to take a
\* resource whether or not one is idle
CvWaitCheck_NoWait(t) ==
    /\ pc[t] = "acq_wait_pred"
    /\ pc' = [pc EXCEPT ![t] = "acq_take"]
    /\ UNCHANGED <<poolVars, conn_, relArg, dtorOf>>
    /\ UNCHANGED histVars
    /\ UNCHANGED faultVars
    /\ UNCHANGED srvVars

\* cv_.wait(lock, pred): while (!pred()) wait(lock); the predicate is evaluated
\* with the mutex held; wait releases the mutex and blocks in one atomic step
CvWaitCheck(t) ==
    /\ pc[t] = "acq_wait_pred"
    /\ IF connections_ # <<>>
         THEN /\ pc' = [pc EXCEPT ![t] = "acq_take"]
              /\ UNCHANGED <<mutex_, cvWaiters>>
         ELSE /\ pc' = [pc EXCEPT ![t] = "acq_blocked"]
              /\ mutex_' = NoThread
              /\ cvWaiters' = cvWaiters \cup {t}
    /\ UNCHANGED <<poolState, size_, connections_, conn_, relArg, dtorOf>>
    /\ UNCHANGED histVars
    /\ UNCHANGED faultVars
    /\ UNCHANGED srvVars

\* a condition variable may wake a waiter without any notification
SpuriousWakeup(t) ==
    /\ pc[t] = "acq_blocked"
    /\ t \in cvWaiters
    /\ cvWaiters' = cvWaiters \ {t}
    /\ UNCHANGED <<poolState, size_, connections_, mutex_, pc, conn_, relArg, dtorOf>>
    /\ UNCHANGED histVars
    /\ UNCHANGED faultVars
    /\ UNCHANGED srvVars

\* a woken waiter reacquires the mutex before wait re-evaluates the predicate
CvWaitRelock(t) ==
    /\ pc[t] = "acq_blocked"
    /\ t \notin cvWaiters
    /\ mutex_ = NoThread
    /\ mutex_' = t
    /\ pc' = [pc EXCEPT ![t] = "acq_wait_pred"]
    /\ UNCHANGED <<poolState, size_, connections_, cvWaiters, conn_, relArg, dtorOf>>
    /\ UNCHANGED histVars
    /\ UNCHANGED faultVars
    /\ UNCHANGED srvVars

\* connections_.front(): front() of an empty queue is undefined behaviour, the
\* pointer read is then null or any resource of the pool
Front(q) == IF q = <<>> THEN {NULL} \cup (1..size_) ELSE {Head(q)}

\* connections_.pop()
Pop(q) == IF q = <<>> THEN <<>> ELSE Tail(q)

\* faulty variant of AcquireTake: the resource at the back is handed out (a stack)
AcquireTake_Back(t) ==
    /\ pc[t] = "acq_take"
    /\ connections_ # <<>>
    /\ conn_' = [conn_ EXCEPT ![t] = connections_[Len(connections_)]]
    /\ idleOrder' = Without(idleOrder, connections_[Len(connections_)])
    /\ connections_' = SubSeq(connections_, 1, Len(connections_) - 1)
    /\ mutex_' = NoThread
    /\ pc' = [pc EXCEPT ![t] = "holding"]
    /\ pushes' = [pushes EXCEPT ![t] = 0]
    /\ UNCHANGED <<poolState, size_, cvWaiters, relArg, dtorOf, races>>
    /\ UNCHANGED faultVars
    /\ UNCHANGED srvVars

\* faulty variant of AcquireTake: the front resource is handed out but never popped
AcquireTake_NoPop(t) ==
    /\ pc[t] = "acq_take"
    /\ \E r \in Front(connections_) : conn_' = [conn_ EXCEPT ![t] = r]
    /\ mutex_' = NoThread
    /\ pc' = [pc EXCEPT ![t] = "holding"]
    /\ pushes' = [pushes EXCEPT ![t] = 0]
    /\ UNCHANGED <<poolState, size_, connections_, cvWaiters, relArg, dtorOf>>
    /\ UNCHANGED <<idleOrder, races>>
    /\ UNCHANGED faultVars
    /\ UNCHANGED srvVars

\* auto conn = std::move(connections_.front()); connections_.pop();
\* return {std::move(conn), this};  the lock is released on return
AcquireTake(t) ==
    /\ pc[t] = "acq_take"
    /\ \E r \in Front(connections_) :
         /\ conn_' = [conn_ EXCEPT ![t] = r]
         /\ idleOrder' = Without(idleOrder, r)
    /\ connections_' = Pop(connections_)
    /\ mutex_' = NoThread
    /\ pc' = [pc EXCEPT ![t] = "holding"]
    /\ pushes' = [pushes EXCEPT ![t] = 0]
    /\ UNCHANGED <<poolState, size_, cvWaiters, relArg, dtorOf, races>>
    /\ UNCHANGED faultVars
    /\ UNCHANGED srvVars

\* ------------------------------------------------------ Connection::~Connection
\* the handle goes out of scope at the end of ExecuteQuery
DtorEnter(t) ==
    /\ pc[t] = "holding"
    /\ pc' = [pc EXCEPT ![t] = "dtor_check"]
    /\ UNCHANGED <<poolVars, conn_, relArg, dtorOf>>
    /\ UNCHANGED histVars
    /\ UNCHANGED faultVars
    /\ UNCHANGED srvVars

\* if (conn_)
DtorCheck(t) ==
    /\ pc[t] = "dtor_check"
    /\ pc' = [pc EXCEPT ![t] = IF conn_[dtorOf[t]] # NULL THEN "dtor_move" ELSE "dtor_done"]
    /\ UNCHANGED <<poolVars, conn_, relArg, dtorOf>>
    /\ UNCHANGED histVars
    /\ UNCHANGED faultVars
    /\ UNCHANGED srvVars

\* std::move(conn_) into the parameter of Release: the parameter receives the pointer
DtorMoveRead(t) ==
    /\ pc[t] = "dtor_move"
    /\ relArg' = [relArg EXCEPT ![t] = conn_[dtorOf[t]]]
    /\ pc' = [pc EXCEPT ![t] = "dtor_null"]
    /\ UNCHANGED <<poolVars, conn_, dtorOf>>
    /\ UNCHANGED histVars
    /\ UNCHANGED faultVars
    /\ UNCHANGED srvVars

\* ... and the moved-from conn_ is set to null
DtorMoveNull(t) ==
    /\ pc[t] = "dtor_null"
    /\ conn_' = [conn_ EXCEPT ![dtorOf[t]] = NULL]
    /\ pc' = [pc EXCEPT ![t] = "rel_lock"]
    /\ UNCHANGED <<poolVars, relArg, dtorOf>>
    /\ UNCHANGED histVars
    /\ UNCHANGED faultVars
    /\ UNCHANGED srvVars

\* the destructor returns, and with it ExecuteQuery
DtorDone(t) ==
    /\ pc[t] = "dtor_done"
    /\ pc' = [pc EXCEPT ![t] = "idle"]
    /\ dtorOf' = [dtorOf EXCEPT ![t] = t]
    /\ pushes' = [pushes EXCEPT ![t] = 0]
    /\ UNCHANGED <<poolVars, conn_, relArg>>
    /\ UNCHANGED <<idleOrder, races>>
    /\ UNCHANGED faultVars
    /\ UNCHANGED srvVars

\* ------------------------------------------------------ ConnectionPool::Release
\* const std::unique_lock<std::mutex> lock(mutex_)
ReleaseLock(t) ==
    /\ pc[t] = "rel_lock"
    /\ poolState = "ready"
    /\ mutex_ = NoThread
    /\ mutex_' = t
    /\ pc' = [pc EXCEPT ![t] = "rel_push"]
    /\ UNCHANGED <<poolState, size_, connections_, cvWaiters, conn_, relArg, dtorOf>>
    /\ UNCHANGED histVars
    /\ UNCHANGED faultVars
    /\ UNCHANGED srvVars

\* faulty variant of ReleasePush: the returned resource is not appended
ReleasePush_Drop(t) ==
    /\ pc[t] = "rel_push"
    /\ relArg' = [relArg EXCEPT ![t] = NULL]
    /\ pc' = [pc EXCEPT ![t] = "rel_notify"]
    /\ UNCHANGED <<poolVars, conn_, dtorOf>>
    /\ UNCHANGED histVars
    /\ UNCHANGED faultVars
    /\ UNCHANGED srvVars

\* connections_.push(std::move(conn))
ReleasePush(t) ==
    /\ pc[t] = "rel_push"
    /\ connections_' = Append(connections_, relArg[t])
    /\ idleOrder' = Append(idleOrder, relArg[t])
    /\ relArg' = [relArg EXCEPT ![t] = NULL]
    /\ pushes' = [pushes EXCEPT ![dtorOf[t]] = @ + 1]
    /\ pc' = [pc EXCEPT ![t] = "rel_notify"]
    /\ UNCHANGED <<poolState, size_, mutex_, cvWaiters, conn_, dtorOf, races>>
    /\ UNCHANGED faultVars
    /\ UNCHANGED srvVars

\* faulty variant of ReleaseNotify: notify_all instead of notify_one
ReleaseNotify_All(t) ==
    /\ pc[t] = "rel_notify"
    /\ cvWaiters' = {}
    /\ pc' = [pc EXCEPT ![t] = "rel_unlock"]
    /\ UNCHANGED <<poolState, size_, connections_, mutex_, conn_, relArg, dtorOf>>
    /\ UNCHANGED histVars
    /\ UNCHANGED faultVars
    /\ UNCHANGED srvVars

\* faulty variant of ReleaseNotify: the notification is missing
ReleaseNotify_None(t) ==
    /\ pc[t] = "rel_notify"
    /\ pc' = [pc EXCEPT ![t] = "rel_unlock"]
    /\ UNCHANGED <<poolVars, conn_, relArg, dtorOf>>
    /\ UNCHANGED histVars
    /\ UNCHANGED faultVars
    /\ UNCHANGED srvVars

\* cv_.notify_one(): unblocks one of the threads blocked in wait, if any
ReleaseNotify(t) ==
    /\ pc[t] = "rel_notify"
    /\ IF cvWaiters = {}
         THEN UNCHANGED cvWaiters
         ELSE \E w \in cvWaiters : cvWaiters' = cvWaiters \ {w}
    /\ pc' = [pc EXCEPT ![t] = "rel_unlock"]
    /\ UNCHANGED <<poolState, size_, connections_, mutex_, conn_, relArg, dtorOf>>
    /\ UNCHANGED histVars
    /\ UNCHANGED faultVars
    /\ UNCHANGED srvVars

\* the lock goes out of scope, Release returns into the destructor
ReleaseUnlock(t) ==
    /\ pc[t] = "rel_unlock"
    /\ mutex_' = NoThread
    /\ pc' = [pc EXCEPT ![t] = "dtor_done"]
    /\ UNCHANGED <<poolState, size_, connections_, cvWaiters, conn_, relArg, dtorOf>>
    /\ UNCHANGED histVars
    /\ UNCHANGED faultVars
    /\ UNCHANGED srvVars

\* --------------------------------------------------------------- specification
Next ==
    \/ CtorBegin
    \/ CtorPush
    \/ CtorDone
    \/ \E t \in Threads : Call(t)
    \/ \E t \in Threads : AcquireLock(t)
    \/ \E t \in Threads : CvWaitCheck(t)
    \/ \E t \in Threads : SpuriousWakeup(t)
    \/ \E t \in Threads : CvWaitRelock(t)
    \/ \E t \in Threads : AcquireTake(t)
    \/ \E t \in Threads : DtorEnter(t)
    \/ \E t \in Threads : DtorCheck(t)
    \/ \E t \in Threads : DtorMoveRead(t)
    \/ \E t \in Threads : DtorMoveNull(t)
    \/ \E t \in Threads : ReleaseLock(t)
    \/ \E t \in Threads : ReleasePush(t)
    \/ \E t \in Threads : ReleaseNotify(t)
    \/ \E t \in Threads : ReleaseUnlock(t)
    \/ \E t \in Threads : DtorDone(t)

Spec == Init /\ [][Next]_vars

\* the steps of thread t that need nothing but the processor
LocalStep(t) ==
    \/ CvWaitCheck(t)
    \/ AcquireTake(t)
    \/ DtorEnter(t)
    \/ DtorCheck(t)
    \/ DtorMoveRead(t)
    \/ DtorMoveNull(t)
    \/ ReleasePush(t)
    \/ ReleaseNotify(t)
    \/ ReleaseUnlock(t)
    \/ DtorDone(t)

\* the steps of thread t that lock the mutex
LockStep(t) ==
    \/ AcquireLock(t)
    \/ CvWaitRelock(t)
    \/ ReleaseLock(t)

\* Fair scheduling: a thread that can take a step that does not need the mutex
\* eventually takes it (so every handle is eventually destroyed), and a thread
\* that finds the mutex free again and again eventually gets it.  New calls of
\* ExecuteQuery and spurious wake-ups may happen but are never forced.
Fairness ==
    /\ WF_vars(CtorPush \/ CtorDone)
    /\ \A t \in Threads : WF_vars(LocalStep(t)) /\ SF_vars(LockStep(t))

FairSpec == Init /\ [][Next]_vars /\ Fairness

\* ------------------------------------------- misuse: concurrent destruction
\* a second thread enters ~Connection of a handle whose destructor its owner is
\* already running; conn_ is read and written without any synchronisation, so
\* the steps DtorCheck, DtorMoveRead and DtorMoveNull of both threads interleave
RaceDtorEnter(u, t) ==
    /\ races < MaxRaces
    /\ u # t
    /\ pc[u] = "idle"
    /\ dtorOf[t] = t
    /\ pc[t] \in {"dtor_check", "dtor_move", "dtor_null"}
    /\ pc' = [pc EXCEPT ![u] = "dtor_check"]
    /\ dtorOf' = [dtorOf EXCEPT ![u] = t]
    /\ races' = races + 1
    /\ UNCHANGED <<poolVars, conn_, relArg, idleOrder, pushes>>
    /\ UNCHANGED faultVars
    /\ UNCHANGED srvVars

RaceNext ==
    \/ Next
    \/ \E u, t \in Threads : RaceDtorEnter(u, t)

SpecRace == Init /\ [][RaceNext]_vars

\* ------------------------------------------------- faults and pool teardown
\* Release: mutex_.lock() throws std::system_error; unwinding destroys the
\* parameter and with it the resource
ReleaseLockThrows(t) ==
    /\ pc[t] = "rel_lock"
    /\ poolState = "ready"
    /\ relArg' = [relArg EXCEPT ![t] = NULL]
    /\ pc' = [pc EXCEPT ![t] = "dtor_catch"]
    /\ UNCHANGED <<poolVars, conn_, dtorOf>>
    /\ UNCHANGED histVars
    /\ UNCHANGED faultVars
    /\ UNCHANGED srvVars

\* faulty variant of ReleasePushThrows: the failure comes after the resource
\* was appended
ReleasePushThrows_Appended(t) ==
    /\ pc[t] = "rel_push"
    /\ connections_' = Append(connections_, relArg[t])
    /\ idleOrder' = Append(idleOrder, relArg[t])
    /\ relArg' = [relArg EXCEPT ![t] = NULL]
    /\ pushes' = [pushes EXCEPT ![dtorOf[t]] = @ + 1]
    /\ mutex_' = NoThread
    /\ pc' = [pc EXCEPT ![t] = "dtor_catch"]
    /\ UNCHANGED <<poolState, size_, cvWaiters, conn_, dtorOf, races>>
    /\ UNCHANGED faultVars
    /\ UNCHANGED srvVars

\* Release: connections_.push throws std::bad_alloc; unwinding releases the
\* lock and destroys the parameter and with it the resource
ReleasePushThrows(t) ==
    /\ pc[t] = "rel_push"
    /\ relArg' = [relArg EXCEPT ![t] = NULL]
    /\ mutex_' = NoThread
    /\ pc' = [pc EXCEPT ![t] = "dtor_catch"]
    /\ UNCHANGED <<poolState, size_, connections_, cvWaiters, conn_, dtorOf>>
    /\ UNCHANGED histVars
    /\ UNCHANGED faultVars
    /\ UNCHANGED srvVars

\* catch (std::exception& e) { std::cout << e.what() << "\n"; }
DtorCatch(t) ==
    /\ pc[t] = "dtor_catch"
    /\ diag' = TRUE
    /\ pc' = [pc EXCEPT ![t] = "dtor_done"]
    /\ UNCHANGED <<poolVars, conn_, relArg, dtorOf, crashed>>
    /\ UNCHANGED histVars
    /\ UNCHANGED srvVars

\* the pool is destroyed while handles are outstanding: its queue, mutex and
\* condition variable are gone, every handle keeps its pool_ pointer
PoolDestroy ==
    /\ poolState = "ready"
    /\ mutex_ = NoThread
    /\ cvWaiters = {}
    /\ \A t \in Threads : pc[t] \notin InAcquire \cup {"rel_push", "rel_notify", "rel_unlock"}
    /\ OutstandingHandles # {}
    /\ poolState' = "destroyed"
    /\ connections_' = <<>>
    /\ idleOrder' = <<>>
    /\ UNCHANGED <<size_, mutex_, cvWaiters, pc, conn_, relArg, dtorOf, pushes, races>>
    /\ UNCHANGED faultVars
    /\ UNCHANGED srvVars

\* pool_->Release(...) through the dangling pool_: undefined behaviour.  The
\* call throws std::system_error from the dead mutex, or brings the process
\* down (no thread takes another step), or appears to work on the freed memory
ReleaseOnDestroyedPool(t) ==
    /\ pc[t] = "rel_lock"
    /\ poolState = "destroyed"
    /\ relArg' = [relArg EXCEPT ![t] = NULL]
    /\ \E outcome \in {"throws", "crash", "silent"} :
         /\ pc' = IF outcome = "crash" THEN [u \in Threads |-> "aborted"]
                  ELSE [pc EXCEPT ![t] = IF outcome = "throws" THEN "dtor_catch"
                                                              ELSE "dtor_done"]
         /\ crashed' = (outcome = "crash")
    /\ UNCHANGED <<poolVars, conn_, dtorOf, diag>>
    /\ UNCHANGED histVars
    /\ UNCHANGED srvVars

FaultNext ==
    \/ Next
    \/ \E t \in Threads : ReleaseLockThrows(t)
    \/ \E t \in Threads : ReleasePushThrows(t)
    \/ \E t \in Threads : DtorCatch(t)
    \/ PoolDestroy
    \/ \E t \in Threads : ReleaseOnDestroyedPool(t)

SpecFault == Init /\ [][FaultNext]_vars

\* ------------------------------------------------- numbers, texts, answers
\* the decimal digits, as std::to_string writes and pqxx reads them
DigitChars == <<"0", "1", "2", "3", "4", "5", "6", "7", "8", "9">>

\* std::to_string(n), and the text of a bigint field, for n >= 0
RECURSIVE to_string(_)
to_string(n) ==
    IF n < 10 THEN <<DigitChars[n + 1]>>
    ELSE to_string(n \div 10) \o <<DigitChars[(n % 10) + 1]>>

\* the value of one digit character
DigitValue(c) == CHOOSE d \in 0..9 : DigitChars[d + 1] = c

\* field.as<uint64_t>(): the number that a text of digits denotes
RECURSIVE AsUint64(_)
AsUint64(text) ==
    IF Len(text) = 1 THEN DigitValue(text[1])
    ELSE 10 * AsUint64(SubSeq(text, 1, Len(text) - 1)) + DigitValue(text[Len(text)])

\* the answer of the store to the statement of an operation: COUNT(*) is one
\* row of one field, CREATE TABLE and INSERT have no rows
Answer(o) == IF o = "GetCount" THEN <<<<to_string(visits)>>>> ELSE <<>>

\* ================================================================ the server
\* main (src/src/app.cpp) runs on one thread: the startup sequence, then
\* io_context.run(), which invokes the completion handlers one at a time.
\* A Data Service call is made by that thread: it runs ExecuteQuery with the
\* steps of Acquire, ~Connection and Release above for LoopThread.

StartupPcs == {"init_config", "make_db", "initialize", "make_factory",
               "make_server", "server_initialize", "server_accept", "started"}

HandlerPcs == {"acc_check", "acc_mark", "acc_create", "acc_start", "acc_drop",
               "acc_rearm", "rd_check", "rd_parse", "wr_getcount", "wr_issue",
               "wr_return", "rd_end", "wr_end"}

\* the places where a Data Service operation is called, and the operation
CallSites == [initialize        |-> "Initialize",
              server_initialize |-> "Initialize",
              acc_mark          |-> "MarkVisit",
              wr_getcount       |-> "GetCount"]

\* where the caller continues when the operation has returned
AfterCall == [initialize        |-> "make_factory",
              server_initialize |-> "server_accept",
              acc_mark          |-> "acc_create",
              wr_getcount       |-> "wr_issue"]

\* what is recorded for the connection when the operation has returned
CallEvent == [initialize        |-> <<>>,
              server_initialize |-> <<>>,
              acc_mark          |-> <<"markvisit">>,
              wr_getcount       |-> <<"getcount">>]

Alive == {s \in Sessions : life[s] = "alive"}

\* a shared_ptr to the Session of connection s is destroyed; the last owner
\* destroys the Session and with it the socket
DropRef(s, events) ==
    /\ refs' = [refs EXCEPT ![s] = @ - 1]
    /\ life' = [life EXCEPT ![s] = IF refs[s] = 1 THEN "destroyed" ELSE @]
    /\ slog' = [slog EXCEPT ![s] =
                   @ \o events \o (IF refs[s] = 1 THEN <<"close">> ELSE <<>>)]

\* ------------------------------------------------------------------- main
\* InitializeConfig(); boost::asio::io_context io_context;
MainInitConfig ==
    /\ mainPc = "init_config"
    /\ mainPc' = "make_db"
    /\ UNCHANGED <<cur, ec, callVars, netVars, storeVars, srvHist>>
    /\ UNCHANGED dbVars

\* std::make_shared<PostgresDatabase>(): conn_pool_(size, options) is built
MakeDbBegin ==
    /\ mainPc = "make_db"
    /\ CtorBegin

MakeDbPush ==
    /\ mainPc = "make_db"
    /\ CtorPush

MakeDbDone ==
    /\ mainPc = "make_db"
    /\ CtorDone

\* the constructor of PostgresDatabase has returned; db_service->Initialize()
MainDbMade ==
    /\ mainPc = "make_db"
    /\ poolState = "ready"
    /\ mainPc' = "initialize"
    /\ UNCHANGED <<cur, ec, callVars, netVars, storeVars, srvHist>>
    /\ UNCHANGED dbVars

\* auto session_factory = std::make_shared<SessionFactory>()
MainMakeFactory ==
    /\ mainPc = "make_factory"
    /\ mainPc' = "make_server"
    /\ UNCHANGED <<cur, ec, callVars, netVars, storeVars, srvHist>>
    /\ UNCHANGED dbVars

\* std::cout << "Server started ..."; io_context.run()
MainRun ==
    /\ mainPc = "started"
    /\ mainPc' = "run"
    /\ UNCHANGED <<cur, ec, callVars, netVars, storeVars, srvHist>>
    /\ UNCHANGED dbVars

\* ---------------------------------------------------------- Server::Server
\* faulty variant of ServerCtorAcceptor: the constructor calls DoAccept() first
ServerCtorAcceptor_ArmFirst ==
    /\ mainPc = "make_server"
    /\ acceptPending' = acceptPending + 1
    /\ everArmed' = TRUE
    /\ mainPc' = "server_initialize"
    /\ UNCHANGED <<cur, ec, callVars, accepted, life, refs, pendingOp, storeVars,
                   slog, startupFailed>>
    /\ UNCHANGED dbVars

\* db_, sf_ and acceptor_(io_context, endpoint) are initialised: the acceptor
\* is opened, bound and listening; db_->Initialize() is next
ServerCtorAcceptor ==
    /\ mainPc = "make_server"
    /\ mainPc' = "server_initialize"
    /\ UNCHANGED <<cur, ec, callVars, netVars, storeVars, srvHist>>
    /\ UNCHANGED dbVars

\* the constructor calls DoAccept(): acceptor_.async_accept(handler)
ServerCtorAccept ==
    /\ mainPc = "server_accept"
    /\ acceptPending' = acceptPending + 1
    /\ everArmed' = TRUE
    /\ mainPc' = "started"
    /\ UNCHANGED <<cur, ec, callVars, accepted, life, refs, pendingOp, storeVars,
                   slog, startupFailed>>
    /\ UNCHANGED dbVars

\* ------------------------------------------- PostgresDatabase::ExecuteQuery
\* Initialize, MarkVisit or GetCount is called and enters ExecuteQuery:
\* auto conn = conn_pool_.Acquire()
DsCall ==
    /\ mainPc \in DOMAIN CallSites
    /\ op = "none"
    /\ ~exc
    /\ pc[LoopThread] = "idle"
    /\ op' = CallSites[mainPc]
    /\ opLog' = <<>>
    /\ pc' = [pc EXCEPT ![LoopThread] = "acq_lock"]
    /\ UNCHANGED <<loopVars, txn, exc, netVars, storeVars, srvHist>>
    /\ UNCHANGED <<poolVars, conn_, relArg, dtorOf, histVars, faultVars, extVars>>

\* pqxx::work transaction(*conn)
TxnBegin ==
    /\ op # "none"
    /\ pc[LoopThread] = "holding"
    /\ txn = "none"
    /\ txn' = "open"
    /\ opLog' = Append(opLog, "begin")
    /\ UNCHANGED <<loopVars, op, exc, netVars, storeVars, srvHist>>
    /\ UNCHANGED dbVars

\* const pqxx::result res = transaction.exec(query)
TxnExec ==
    /\ pc[LoopThread] = "holding"
    /\ txn = "open"
    /\ txn' = "executed"
    /\ opLog' = Append(opLog, "exec")
    /\ qres' = Answer(op)
    /\ UNCHANGED <<loopVars, op, exc, netVars, storeVars, srvHist>>
    /\ UNCHANGED <<restVars, visit_count, response, buffer, sent>>

\* faulty variant of TxnCommit: MarkVisit inserts two rows
TxnCommit_TwoRows ==
    /\ pc[LoopThread] = "holding"
    /\ txn = "executed"
    /\ txn' = "committed"
    /\ opLog' = Append(opLog, "commit")
    /\ schema' = (schema \/ op = "Initialize")
    /\ visits' = IF op = "MarkVisit" THEN visits + 2 ELSE visits
    /\ UNCHANGED <<loopVars, op, exc, netVars, srvHist>>
    /\ UNCHANGED dbVars

\* transaction.commit(): the statement takes effect in the store
TxnCommit ==
    /\ pc[LoopThread] = "holding"
    /\ txn = "executed"
    /\ txn' = "committed"
    /\ opLog' = Append(opLog, "commit")
    /\ schema' = (schema \/ op = "Initialize")
    /\ visits' = IF op = "MarkVisit" THEN visits + 1 ELSE visits
    /\ UNCHANGED <<loopVars, op, exc, netVars, srvHist>>
    /\ UNCHANGED dbVars

\* leaving ExecuteQuery (return res, or an exception): ~work runs first, an
\* uncommitted transaction is aborted
TxnEnd ==
    /\ pc[LoopThread] = "holding"
    /\ txn \in {"committed", "failed"}
    /\ txn' = "closed"
    /\ opLog' = Append(opLog, "end")
    /\ UNCHANGED <<loopVars, op, exc, netVars, storeVars, srvHist>>
    /\ UNCHANGED dbVars

\* faulty variant of HandleDtor: the handle is destroyed before the commit
HandleDtor_BeforeCommit ==
    /\ op # "none"
    /\ txn \in {"executed", "closed"}
    /\ DtorEnter(LoopThread)

\* faulty variant of HandleDtor: the handle outlives ExecuteQuery, its
\* resource is not given back
HandleDtor_Keep ==
    /\ op # "none"
    /\ txn = "closed"
    /\ pc[LoopThread] = "holding"
    /\ pc' = [pc EXCEPT ![LoopThread] = "idle"]
    /\ UNCHANGED <<poolVars, conn_, relArg, dtorOf, histVars, faultVars>>
    /\ UNCHANGED srvVars

\* faulty variant of HandleDtor: the handle is given back by hand after the
\* commit, so an exception leaves ExecuteQuery with the resource not returned
HandleDtor_OnlyOnSuccess ==
    /\ op # "none"
    /\ txn = "closed"
    /\ IF exc
       THEN /\ pc[LoopThread] = "holding"
            /\ pc' = [pc EXCEPT ![LoopThread] = "idle"]
            /\ UNCHANGED <<poolVars, conn_, relArg, dtorOf, histVars, faultVars>>
            /\ UNCHANGED srvVars
       ELSE DtorEnter(LoopThread)

\* ... then conn, the handle, is destroyed: ~Connection
HandleDtor ==
    /\ op # "none"
    /\ txn = "closed"
    /\ DtorEnter(LoopThread)

\* ExecuteQuery and the operation return to the caller
DsReturn ==
    /\ op # "none"
    /\ pc[LoopThread] = "idle"
    /\ ~exc
    /\ op' = "none"
    /\ txn' = "none"
    /\ mainPc' = AfterCall[mainPc]
    /\ slog' = IF cur = NoSession THEN slog
               ELSE [slog EXCEPT ![cur] = @ \o CallEvent[mainPc]]
    /\ visit_count' = IF op = "GetCount" THEN AsUint64(qres[1][1]) ELSE visit_count
    /\ UNCHANGED <<cur, ec, exc, opLog, netVars, storeVars, everArmed, startupFailed>>
    /\ UNCHANGED <<restVars, qres, response, buffer, sent>>

\* --------------------------------------------------------- Server::DoAccept
\* the pending async_accept completes, with a connection or with an error,
\* and the event loop invokes its handler
AcceptComplete ==
    /\ mainPc = "run"
    /\ acceptPending > 0
    /\ \E e \in {"ok", "err"} :
         /\ e = "ok" => accepted < MaxSessions
         /\ ec' = e
         /\ accepted' = IF e = "ok" THEN accepted + 1 ELSE accepted
         /\ cur' = IF e = "ok" THEN accepted + 1 ELSE NoSession
    /\ acceptPending' = acceptPending - 1
    /\ mainPc' = "acc_check"
    /\ UNCHANGED <<callVars, life, refs, pendingOp, storeVars, srvHist>>
    /\ UNCHANGED dbVars

\* faulty variant of AccCheck: the visit is not marked
AccCheck_NoMark ==
    /\ mainPc = "acc_check"
    /\ mainPc' = IF ec = "ok" THEN "acc_create" ELSE "acc_rearm"
    /\ UNCHANGED <<cur, ec, callVars, netVars, storeVars, srvHist>>
    /\ UNCHANGED dbVars

\* if (!ec) { db_->MarkVisit(); ...
AccCheck ==
    /\ mainPc = "acc_check"
    /\ mainPc' = IF ec = "ok" THEN "acc_mark" ELSE "acc_rearm"
    /\ UNCHANGED <<cur, ec, callVars, netVars, storeVars, srvHist>>
    /\ UNCHANGED dbVars

\* auto session = sf_->Create(std::move(socket), db_)
AccCreate ==
    /\ mainPc = "acc_create"
    /\ life' = [life EXCEPT ![cur] = "alive"]
    /\ refs' = [refs EXCEPT ![cur] = 1]
    /\ slog' = [slog EXCEPT ![cur] = Append(@, "create")]
    /\ mainPc' = "acc_start"
    /\ UNCHANGED <<cur, ec, callVars, acceptPending, accepted, pendingOp, storeVars,
                   everArmed, startupFailed>>
    /\ UNCHANGED dbVars

\* faulty variant of AccStart: the read handler captures this only, no self
AccStart_NoSelf ==
    /\ mainPc = "acc_start"
    /\ pendingOp' = [pendingOp EXCEPT ![cur] = "read"]
    /\ slog' = [slog EXCEPT ![cur] = @ \o <<"start", "read">>]
    /\ mainPc' = "acc_drop"
    /\ UNCHANGED <<cur, ec, callVars, acceptPending, accepted, life, refs, storeVars,
                   everArmed, startupFailed>>
    /\ UNCHANGED dbVars

\* session->Start(): DoRead() issues async_read_until, whose handler keeps
\* self, a shared_ptr to the session
AccStart ==
    /\ mainPc = "acc_start"
    /\ pendingOp' = [pendingOp EXCEPT ![cur] = "read"]
    /\ refs' = [refs EXCEPT ![cur] = @ + 1]
    /\ slog' = [slog EXCEPT ![cur] = @ \o <<"start", "read">>]
    /\ mainPc' = "acc_drop"
    /\ UNCHANGED <<cur, ec, callVars, acceptPending, accepted, life, storeVars,
                   everArmed, startupFailed>>
    /\ UNCHANGED dbVars

\* } the local session goes out of scope
AccDrop ==
    /\ mainPc = "acc_drop"
    /\ DropRef(cur, <<>>)
    /\ mainPc' = "acc_rearm"
    /\ UNCHANGED <<cur, ec, callVars, acceptPending, accepted, pendingOp, storeVars,
                   everArmed, startupFailed>>
    /\ UNCHANGED dbVars

\* faulty variant of AccRearm: DoAccept() is called inside if (!ec) only
AccRearm_OnSuccessOnly ==
    /\ mainPc = "acc_rearm"
    /\ acceptPending' = IF ec = "ok" THEN acceptPending + 1 ELSE acceptPending
    /\ everArmed' = TRUE
    /\ slog' = IF cur = NoSession THEN slog
               ELSE [slog EXCEPT ![cur] = Append(@, "arm")]
    /\ cur' = NoSession
    /\ mainPc' = "run"
    /\ UNCHANGED <<ec, callVars, accepted, life, refs, pendingOp, storeVars,
                   startupFailed>>
    /\ UNCHANGED dbVars

\* DoAccept(): the next async_accept is issued, the handler returns
AccRearm ==
    /\ mainPc = "acc_rearm"
    /\ acceptPending' = acceptPending + 1
    /\ everArmed' = TRUE
    /\ slog' = IF cur = NoSession THEN slog
               ELSE [slog EXCEPT ![cur] = Append(@, "arm")]
    /\ cur' = NoSession
    /\ mainPc' = "run"
    /\ UNCHANGED <<ec, callVars, accepted, life, refs, pendingOp, storeVars,
                   startupFailed>>
    /\ UNCHANGED dbVars

\* --------------------------------------------------------- Session::DoRead
\* the pending async_read_until of session s completes, with the request or
\* with an error, and the event loop invokes its handler
ReadComplete(s) ==
    /\ mainPc = "run"
    /\ pendingOp[s] = "read"
    /\ \E e \in {"ok", "err"} :
         /\ ec' = e
         /\ slog' = [slog EXCEPT ![s] = Append(@, IF e = "ok" THEN "read_ok" ELSE "read_err")]
    /\ pendingOp' = [pendingOp EXCEPT ![s] = "none"]
    /\ cur' = s
    /\ mainPc' = "rd_check"
    /\ UNCHANGED <<callVars, acceptPending, accepted, life, refs, storeVars,
                   everArmed, startupFailed>>
    /\ UNCHANGED dbVars

\* faulty variant of RdCheck: the error code is not tested
RdCheck_IgnoreError ==
    /\ mainPc = "rd_check"
    /\ mainPc' = "rd_parse"
    /\ UNCHANGED <<cur, ec, callVars, netVars, storeVars, srvHist>>
    /\ UNCHANGED dbVars

\* faulty variant of RdCheck: a failed read is issued again
RdCheck_Retry ==
    /\ mainPc = "rd_check"
    /\ IF ec = "ok"
         THEN /\ mainPc' = "rd_parse"
              /\ UNCHANGED <<cur, pendingOp, slog>>
         ELSE /\ mainPc' = "run"
              /\ cur' = NoSession
              /\ pendingOp' = [pendingOp EXCEPT ![cur] = "read"]
              /\ slog' = [slog EXCEPT ![cur] = Append(@, "read")]
    /\ UNCHANGED <<ec, callVars, acceptPending, accepted, life, refs, storeVars,
                   everArmed, startupFailed>>
    /\ UNCHANGED dbVars

\* if (!ec) { ... }
RdCheck ==
    /\ mainPc = "rd_check"
    /\ mainPc' = IF ec = "ok" THEN "rd_parse" ELSE "rd_end"
    /\ UNCHANGED <<cur, ec, callVars, netVars, storeVars, srvHist>>
    /\ UNCHANGED dbVars

\* faulty variant of RdParse: the write is issued before GetCount is called
RdParse_WriteFirst ==
    /\ mainPc = "rd_parse"
    /\ refs' = [refs EXCEPT ![cur] = @ + 1]
    /\ pendingOp' = [pendingOp EXCEPT ![cur] = "write"]
    /\ mainPc' = "wr_getcount"
    /\ UNCHANGED <<cur, ec, callVars, acceptPending, accepted, life, storeVars, srvHist>>
    /\ UNCHANGED dbVars

\* the headers are printed; DoWrite(): auto self = shared_from_this(), then
\* db_->GetCount()
RdParse ==
    /\ mainPc = "rd_parse"
    /\ refs' = [refs EXCEPT ![cur] = @ + 1]
    /\ mainPc' = "wr_getcount"
    /\ UNCHANGED <<cur, ec, callVars, acceptPending, accepted, life, pendingOp,
                   storeVars, srvHist>>
    /\ UNCHANGED dbVars

\* -------------------------------------------------------- Session::DoWrite
\* the line break of the response, "\r\n"
CRLF == "\\r\\n"

\* const std::string body = "Hello, world! Visits: " + std::to_string(visit_count)
Body(n) == <<"Hello, world! Visits: ">> \o to_string(n)

\* body.length(): the literal has HelloLength characters, a digit is one
BodyLength(n) == HelloLength + Len(to_string(n))

\* faulty variant of Response: the header Connection is left out
Response_NoConnectionHeader(n) ==
    <<"HTTP/1.1 200 OK", CRLF,
      "Content-Type: text/html", CRLF,
      "Content-Length: ">> \o to_string(BodyLength(n)) \o <<CRLF, CRLF>>
    \o Body(n)

\* std::string response: the literals and numbers in the order in which they
\* are concatenated, each literal cut at its line breaks
Response(n) ==
    <<"HTTP/1.1 200 OK", CRLF,
      "Content-Type: text/html", CRLF,
      "Content-Length: ">> \o to_string(BodyLength(n)) \o <<CRLF,
      "Connection: close", CRLF, CRLF>>
    \o Body(n)

\* what a write that reads memory m holding the bytes r puts on the wire:
\* reading the storage of a destroyed std::string is undefined, the bytes
\* are those of the response or whatever the storage holds by then
Garbage == <<"?">>
BytesRead(m, r) == IF m = "valid" THEN {r} ELSE {r, Garbage}

\* the response is built in the local std::string response and async_write
\* is issued on boost::asio::buffer(response), a view of that string; its
\* handler keeps self. The write sends at once what the socket takes, which
\* may be everything, and completes later in any case
WrIssue ==
    /\ mainPc = "wr_issue"
    /\ pendingOp' = [pendingOp EXCEPT ![cur] = "write"]
    /\ refs' = [refs EXCEPT ![cur] = @ + 1]
    /\ slog' = [slog EXCEPT ![cur] = Append(@, "write")]
    /\ response' = [response EXCEPT ![cur] = Response(visit_count)]
    /\ buffer' = [buffer EXCEPT ![cur] = "valid"]
    /\ \E atOnce \in BOOLEAN :
         sent' = [sent EXCEPT ![cur] = IF atOnce THEN Response(visit_count) ELSE <<>>]
    /\ mainPc' = "wr_return"
    /\ UNCHANGED <<cur, ec, callVars, acceptPending, accepted, life, storeVars,
                   everArmed, startupFailed>>
    /\ UNCHANGED <<restVars, qres, visit_count>>

\* DoWrite returns: its locals response and self are destroyed; the buffer
\* of the pending write now refers to the storage of a destroyed string
WrReturn ==
    /\ mainPc = "wr_return"
    /\ DropRef(cur, <<>>)
    /\ buffer' = [buffer EXCEPT ![cur] = "dangling"]
    /\ mainPc' = "rd_end"
    /\ UNCHANGED <<cur, ec, callVars, acceptPending, accepted, pendingOp, storeVars,
                   everArmed, startupFailed>>
    /\ UNCHANGED <<restVars, qres, visit_count, response, sent>>

\* the read handler returns and is destroyed, and with it its self
RdEnd ==
    /\ mainPc = "rd_end"
    /\ DropRef(cur, <<>>)
    /\ cur' = NoSession
    /\ mainPc' = "run"
    /\ UNCHANGED <<ec, callVars, acceptPending, accepted, pendingOp, storeVars,
                   everArmed, startupFailed>>
    /\ UNCHANGED dbVars

\* the pending async_write of session s completes, with success or with an
\* error, and the event loop invokes its handler
WriteComplete(s) ==
    /\ mainPc = "run"
    /\ pendingOp[s] = "write"
    /\ \E e \in {"ok", "err"} :
         /\ ec' = e
         /\ slog' = [slog EXCEPT ![s] = Append(@, IF e = "ok" THEN "write_ok" ELSE "write_err")]
         /\ \E b \in BytesRead(buffer[s], response[s]) :
              sent' = [sent EXCEPT ![s] = IF e = "ok" /\ @ = <<>> THEN b ELSE @]
    /\ pendingOp' = [pendingOp EXCEPT ![s] = "none"]
    /\ buffer' = [buffer EXCEPT ![s] = "none"]
    /\ cur' = s
    /\ mainPc' = "wr_end"
    /\ UNCHANGED <<callVars, acceptPending, accepted, life, refs, storeVars,
                   everArmed, startupFailed>>
    /\ UNCHANGED <<restVars, qres, visit_count, response>>

\* if (!ec) std::cout << "Response sent."; the write handler returns and is
\* destroyed, and with it its self
WrEnd ==
    /\ mainPc = "wr_end"
    /\ DropRef(cur, <<>>)
    /\ cur' = NoSession
    /\ mainPc' = "run"
    /\ UNCHANGED <<ec, callVars, acceptPending, accepted, pendingOp, storeVars,
                   everArmed, startupFailed>>
    /\ UNCHANGED dbVars

ServerNext ==
    \/ MainInitConfig
    \/ MakeDbBegin
    \/ MakeDbPush
    \/ MakeDbDone
    \/ MainDbMade
    \/ MainMakeFactory
    \/ ServerCtorAcceptor
    \/ ServerCtorAccept
    \/ MainRun
    \/ DsCall
    \/ AcquireLock(LoopThread)
    \/ CvWaitCheck(LoopThread)
    \/ AcquireTake(LoopThread)
    \/ TxnBegin
    \/ TxnExec
    \/ TxnCommit
    \/ TxnEnd
    \/ HandleDtor
    \/ DtorCheck(LoopThread)
    \/ DtorMoveRead(LoopThread)
    \/ DtorMoveNull(LoopThread)
    \/ ReleaseLock(LoopThread)
    \/ ReleasePush(LoopThread)
    \/ ReleaseNotify(LoopThread)
    \/ ReleaseUnlock(LoopThread)
    \/ DtorDone(LoopThread)
    \/ DsReturn
    \/ AcceptComplete
    \/ AccCheck
    \/ AccCreate
    \/ AccStart
    \/ AccDrop
    \/ AccRearm
    \/ \E s \in Sessions : ReadComplete(s)
    \/ RdCheck
    \/ RdParse
    \/ WrIssue
    \/ WrReturn
    \/ RdEnd
    \/ \E s \in Sessions : WriteComplete(s)
    \/ WrEnd

\* the server with read, write and accept errors, no failure of the store
SpecServer == Init /\ [][ServerNext]_vars

\* -------------------------------------------- failures of the store, startup
\* faulty variant of CtorPushThrows: the failure is swallowed, the pool is
\* left with the resources created so far
CtorPushThrows_Swallow ==
    /\ mainPc = "make_db"
    /\ poolState = "constructing"
    /\ Len(connections_) < size_
    /\ poolState' = "ready"
    /\ UNCHANGED <<size_, connections_, mutex_, cvWaiters, pc, conn_, relArg, dtorOf>>
    /\ UNCHANGED histVars
    /\ UNCHANGED faultVars
    /\ UNCHANGED srvVars

\* std::make_unique<pqxx::connection>(options) throws: the constructor does
\* not return, no ConnectionPool and no PostgresDatabase object exists; the
\* resources created so far are destroyed with connections_ while the
\* exception unwinds
CtorPushThrows ==
    /\ mainPc = "make_db"
    /\ poolState = "constructing"
    /\ Len(connections_) < size_
    /\ poolState' = "failed"
    /\ exc' = TRUE
    /\ startupFailed' = TRUE
    /\ mainPc' = "unwind"
    /\ UNCHANGED <<size_, connections_, mutex_, cvWaiters, pc, conn_, relArg, dtorOf>>
    /\ UNCHANGED histVars
    /\ UNCHANGED <<faultVars, extVars>>
    /\ UNCHANGED <<cur, ec, op, txn, opLog, netVars, storeVars, slog, everArmed>>

\* the constructor of acceptor_ throws (the port cannot be bound)
AcceptorCtorThrows ==
    /\ mainPc = "make_server"
    /\ exc' = TRUE
    /\ startupFailed' = TRUE
    /\ mainPc' = "unwind"
    /\ UNCHANGED <<cur, ec, op, txn, opLog, netVars, storeVars, slog, everArmed>>
    /\ UNCHANGED dbVars

\* transaction.exec(query) throws: the statement failed
TxnExecThrows ==
    /\ pc[LoopThread] = "holding"
    /\ txn = "open"
    /\ txn' = "failed"
    /\ exc' = TRUE
    /\ startupFailed' = (startupFailed \/ mainPc \in StartupPcs)
    /\ opLog' = Append(opLog, "exec_failed")
    /\ UNCHANGED <<loopVars, op, netVars, storeVars, slog, everArmed>>
    /\ UNCHANGED dbVars

\* transaction.commit() throws: the commit failed, the statement has no
\* effect in the store
TxnCommitThrows ==
    /\ pc[LoopThread] = "holding"
    /\ txn = "executed"
    /\ txn' = "failed"
    /\ exc' = TRUE
    /\ startupFailed' = (startupFailed \/ mainPc \in StartupPcs)
    /\ opLog' = Append(opLog, "commit_failed")
    /\ UNCHANGED <<loopVars, op, netVars, storeVars, slog, everArmed>>
    /\ UNCHANGED dbVars

\* faulty variant of DsThrow: DoWrite catches the failure of GetCount and goes
\* on to write a response
DsThrow_Caught ==
    /\ op # "none"
    /\ pc[LoopThread] = "idle"
    /\ exc
    /\ op' = "none"
    /\ txn' = "none"
    /\ exc' = (mainPc # "wr_getcount")
    /\ mainPc' = IF mainPc = "wr_getcount" THEN "wr_issue" ELSE "unwind"
    /\ UNCHANGED <<cur, ec, opLog, netVars, storeVars, srvHist>>
    /\ UNCHANGED dbVars

\* faulty variant of DsThrow: the accept handler catches the failure of
\* MarkVisit, skips the session and goes on to DoAccept()
DsThrow_AcceptGoesOn ==
    /\ op # "none"
    /\ pc[LoopThread] = "idle"
    /\ exc
    /\ op' = "none"
    /\ txn' = "none"
    /\ exc' = (mainPc # "acc_mark")
    /\ mainPc' = IF mainPc = "acc_mark" THEN "acc_rearm" ELSE "unwind"
    /\ UNCHANGED <<cur, ec, opLog, netVars, storeVars, srvHist>>
    /\ UNCHANGED dbVars

\* the exception leaves ExecuteQuery and the operation; nothing between the
\* call and the try block of main catches it
DsThrow ==
    /\ op # "none"
    /\ pc[LoopThread] = "idle"
    /\ exc
    /\ op' = "none"
    /\ txn' = "none"
    /\ mainPc' = "unwind"
    /\ UNCHANGED <<cur, ec, exc, opLog, netVars, storeVars, srvHist>>
    /\ UNCHANGED dbVars

\* the exception leaves the try block of main: s, session_factory, db_service
\* and io_context are destroyed, and with them the acceptor, every pending
\* operation, every session and the pool
MainUnwind ==
    /\ mainPc = "unwind"
    /\ acceptPending' = 0
    /\ pendingOp' = [s \in Sessions |-> "none"]
    /\ refs' = [s \in Sessions |-> 0]
    /\ life' = [s \in Sessions |-> IF life[s] = "alive" THEN "destroyed" ELSE life[s]]
    /\ slog' = [s \in Sessions |->
                   IF life[s] = "alive" THEN Append(slog[s], "close") ELSE slog[s]]
    /\ poolState' = IF poolState = "ready" THEN "destroyed" ELSE poolState
    /\ connections_' = <<>>
    /\ idleOrder' = <<>>
    /\ cur' = NoSession
    /\ mainPc' = "main_catch"
    /\ UNCHANGED <<ec, callVars, accepted, storeVars, everArmed, startupFailed>>
    /\ UNCHANGED extVars
    /\ UNCHANGED <<size_, mutex_, cvWaiters, pc, conn_, relArg, dtorOf, pushes, races>>
    /\ UNCHANGED faultVars

\* catch (const std::exception& e) { std::cerr << ... }  return 0;
MainCatch ==
    /\ mainPc = "main_catch"
    /\ exc' = FALSE
    /\ mainPc' = "exited"
    /\ UNCHANGED <<cur, ec, op, txn, opLog, netVars, storeVars, srvHist>>
    /\ UNCHANGED dbVars

ServerFaultNext ==
    \/ ServerNext
    \/ CtorPushThrows
    \/ AcceptorCtorThrows
    \/ TxnExecThrows
    \/ TxnCommitThrows
    \/ DsThrow
    \/ MainUnwind
    \/ MainCatch

\* the server with failures of the store and of startup as well
SpecServerFault == Init /\ [][ServerFaultNext]_vars

\* ============================== the Data Service called by several threads
\* PostgresDatabase used as a class: client threads call Initialize, MarkVisit
\* and GetCount in any order and at the same time, each call running
\* ExecuteQuery on a handle of the pool. The store is the PostgreSQL table
\* visits: a statement of an open transaction takes effect at its commit, a
\* SELECT sees what was committed when it executes.
\*
\*   SpecStore     the store answers every statement as PostgreSQL does
\*   SpecStoreAny  SpecStore plus a store that answers the count query with
\*                 no rows

\* a client calls Initialize(), MarkVisit() or GetCount(), which enters
\* ExecuteQuery: auto conn = conn_pool_.Acquire()
ClientCall(t, o) ==
    /\ poolState = "ready"
    /\ pc[t] = "idle"
    /\ call[t] = "none"
    /\ calls < MaxCalls
    /\ call' = [call EXCEPT ![t] = o]
    /\ fail' = [fail EXCEPT ![t] = FALSE]
    /\ res' = [res EXCEPT ![t] = <<>>]
    /\ calls' = calls + 1
    /\ atCall' = [u \in Threads |->
                     IF u = t
                     THEN [done |-> marksDone, floor |-> maxRet,
                           quiet |-> \A v \in Threads \ {t} : call[v] # "MarkVisit"]
                     ELSE IF o = "MarkVisit" /\ call[u] # "none"
                     THEN [atCall[u] EXCEPT !.quiet = FALSE]
                     ELSE atCall[u]]
    /\ pc' = [pc EXCEPT ![t] = "acq_lock"]
    /\ UNCHANGED <<work, ret, marksDone, initsDone, maxRet>>
    /\ UNCHANGED <<poolVars, conn_, relArg, dtorOf, histVars, faultVars>>
    /\ UNCHANGED <<loopVars, callVars, netVars, storeVars, srvHist, respVars, cfgVars,
                 resolveVars>>

\* pqxx::work transaction(*conn)
WorkBegin(t) ==
    /\ call[t] # "none"
    /\ pc[t] = "holding"
    /\ work[t] = "none"
    /\ work' = [work EXCEPT ![t] = "open"]
    /\ UNCHANGED <<call, res, ret, fail, clientHist>>
    /\ UNCHANGED <<poolVars, pc, conn_, relArg, dtorOf, histVars, faultVars>>
    /\ UNCHANGED <<loopVars, callVars, netVars, storeVars, srvHist, respVars, cfgVars,
                 resolveVars>>

\* faulty variant of WorkExec: CREATE TABLE without IF NOT EXISTS, which the
\* store refuses once the table exists
WorkExec_CreateFails(t) ==
    /\ pc[t] = "holding"
    /\ work[t] = "open"
    /\ schema \/ call[t] = "Initialize"
    /\ work' = [work EXCEPT ![t] =
                   IF call[t] = "Initialize" /\ schema THEN "failed" ELSE "executed"]
    /\ fail' = [fail EXCEPT ![t] = call[t] = "Initialize" /\ schema]
    /\ res' = [res EXCEPT ![t] = Answer(call[t])]
    /\ UNCHANGED <<call, ret, clientHist>>
    /\ UNCHANGED <<poolVars, pc, conn_, relArg, dtorOf, histVars, faultVars>>
    /\ UNCHANGED <<loopVars, callVars, netVars, storeVars, srvHist, respVars, cfgVars,
                 resolveVars>>

\* const pqxx::result res = transaction.exec(query): INSERT and SELECT need
\* the table, CREATE TABLE IF NOT EXISTS does not
WorkExec(t) ==
    /\ pc[t] = "holding"
    /\ work[t] = "open"
    /\ schema \/ call[t] = "Initialize"
    /\ work' = [work EXCEPT ![t] = "executed"]
    /\ res' = [res EXCEPT ![t] = Answer(call[t])]
    /\ UNCHANGED <<call, ret, fail, clientHist>>
    /\ UNCHANGED <<poolVars, pc, conn_, relArg, dtorOf, histVars, faultVars>>
    /\ UNCHANGED <<loopVars, callVars, netVars, storeVars, srvHist, respVars, cfgVars,
                 resolveVars>>

\* transaction.exec(query) throws: the table visits does not exist yet
WorkExecThrows(t) ==
    /\ pc[t] = "holding"
    /\ work[t] = "open"
    /\ ~schema /\ call[t] # "Initialize"
    /\ work' = [work EXCEPT ![t] = "failed"]
    /\ fail' = [fail EXCEPT ![t] = TRUE]
    /\ UNCHANGED <<call, res, ret, clientHist>>
    /\ UNCHANGED <<poolVars, pc, conn_, relArg, dtorOf, histVars, faultVars>>
    /\ UNCHANGED <<loopVars, callVars, netVars, storeVars, srvHist, respVars, cfgVars,
                 resolveVars>>

\* faulty variant of WorkCommit: the counter is kept as one number that is
\* read when the statement executes and written at the commit, so that a
\* concurrent MarkVisit is overwritten
WorkCommit_LostUpdate(t) ==
    /\ pc[t] = "holding"
    /\ work[t] = "executed"
    /\ work' = [work EXCEPT ![t] = "committed"]
    /\ schema' = (schema \/ call[t] = "Initialize")
    /\ visits' = IF call[t] = "MarkVisit" THEN atCall[t].done + 1 ELSE visits
    /\ UNCHANGED <<call, res, ret, fail, clientHist>>
    /\ UNCHANGED <<poolVars, pc, conn_, relArg, dtorOf, histVars, faultVars>>
    /\ UNCHANGED <<loopVars, callVars, netVars, srvHist, respVars, cfgVars,
                 resolveVars>>

\* faulty variant of WorkCommit: Initialize creates the table anew
WorkCommit_InitClears(t) ==
    /\ pc[t] = "holding"
    /\ work[t] = "executed"
    /\ work' = [work EXCEPT ![t] = "committed"]
    /\ schema' = (schema \/ call[t] = "Initialize")
    /\ visits' = CASE call[t] = "MarkVisit" -> visits + 1
                   [] call[t] = "Initialize" -> 0
                   [] OTHER -> visits
    /\ UNCHANGED <<call, res, ret, fail, clientHist>>
    /\ UNCHANGED <<poolVars, pc, conn_, relArg, dtorOf, histVars, faultVars>>
    /\ UNCHANGED <<loopVars, callVars, netVars, srvHist, respVars, cfgVars,
                 resolveVars>>

\* transaction.commit(): CREATE TABLE IF NOT EXISTS makes the table exist and
\* keeps its rows, INSERT INTO visits (time) VALUES (NOW()) adds one row, SELECT
\* changes nothing
WorkCommit(t) ==
    /\ pc[t] = "holding"
    /\ work[t] = "executed"
    /\ work' = [work EXCEPT ![t] = "committed"]
    /\ schema' = (schema \/ call[t] = "Initialize")
    /\ visits' = IF call[t] = "MarkVisit" THEN visits + 1 ELSE visits
    /\ UNCHANGED <<call, res, ret, fail, clientHist>>
    /\ UNCHANGED <<poolVars, pc, conn_, relArg, dtorOf, histVars, faultVars>>
    /\ UNCHANGED <<loopVars, callVars, netVars, srvHist, respVars, cfgVars,
                 resolveVars>>

\* leaving ExecuteQuery: ~work, an uncommitted transaction is aborted
WorkEnd(t) ==
    /\ pc[t] = "holding"
    /\ work[t] \in {"committed", "failed"}
    /\ work' = [work EXCEPT ![t] = "closed"]
    /\ UNCHANGED <<call, res, ret, fail, clientHist>>
    /\ UNCHANGED <<poolVars, pc, conn_, relArg, dtorOf, histVars, faultVars>>
    /\ UNCHANGED <<loopVars, callVars, netVars, storeVars, srvHist, respVars, cfgVars,
                 resolveVars>>

\* faulty variant of ClientHandleDtor: the handle is kept when ExecuteQuery
\* returns, its resource is not given back
ClientHandleDtor_Keep(t) ==
    /\ call[t] # "none"
    /\ work[t] = "closed"
    /\ pc[t] = "holding"
    /\ pc' = [pc EXCEPT ![t] = "idle"]
    /\ UNCHANGED <<poolVars, conn_, relArg, dtorOf, histVars, faultVars>>
    /\ UNCHANGED srvVars

\* ... then conn, the handle, is destroyed: ~Connection
ClientHandleDtor(t) ==
    /\ call[t] # "none"
    /\ work[t] = "closed"
    /\ DtorEnter(t)

\* the maximum of two numbers
Max(a, b) == IF a >= b THEN a ELSE b

\* ExecuteQuery returns res and the operation returns: Initialize and
\* MarkVisit drop res, GetCount returns res[0][0].as<uint64_t>()
ClientReturn(t) ==
    /\ call[t] # "none"
    /\ pc[t] = "idle"
    /\ work[t] = "closed"
    /\ ~fail[t]
    /\ call[t] = "GetCount" => res[t] # <<>>
    /\ ret' = [ret EXCEPT ![t] = IF call[t] = "GetCount"
                                  THEN AsUint64(res[t][1][1]) ELSE NoValue]
    /\ maxRet' = IF call[t] = "GetCount"
                 THEN Max(maxRet, AsUint64(res[t][1][1])) ELSE maxRet
    /\ marksDone' = IF call[t] = "MarkVisit" THEN marksDone + 1 ELSE marksDone
    /\ initsDone' = IF call[t] = "Initialize" THEN initsDone + 1 ELSE initsDone
    /\ call' = [call EXCEPT ![t] = "none"]
    /\ work' = [work EXCEPT ![t] = "none"]
    /\ UNCHANGED <<res, fail, calls, atCall>>
    /\ UNCHANGED <<poolVars, pc, conn_, relArg, dtorOf, histVars, faultVars>>
    /\ UNCHANGED <<loopVars, callVars, netVars, storeVars, srvHist, respVars, cfgVars,
                 resolveVars>>

\* the exception leaves ExecuteQuery and the operation
ClientThrow(t) ==
    /\ call[t] # "none"
    /\ pc[t] = "idle"
    /\ work[t] = "closed"
    /\ fail[t]
    /\ ret' = [ret EXCEPT ![t] = NoValue]
    /\ call' = [call EXCEPT ![t] = "none"]
    /\ work' = [work EXCEPT ![t] = "none"]
    /\ UNCHANGED <<res, fail, clientHist>>
    /\ UNCHANGED <<poolVars, pc, conn_, relArg, dtorOf, histVars, faultVars>>
    /\ UNCHANGED <<loopVars, callVars, netVars, storeVars, srvHist, respVars, cfgVars,
                 resolveVars>>

StoreNext ==
    \/ CtorBegin
    \/ CtorPush
    \/ CtorDone
    \/ \E t \in Clients, o \in Operations : ClientCall(t, o)
    \/ \E t \in Clients : AcquireLock(t)
    \/ \E t \in Clients : CvWaitCheck(t)
    \/ \E t \in Clients : SpuriousWakeup(t)
    \/ \E t \in Clients : CvWaitRelock(t)
    \/ \E t \in Clients : AcquireTake(t)
    \/ \E t \in Clients : WorkBegin(t)
    \/ \E t \in Clients : WorkExec(t)
    \/ \E t \in Clients : WorkExecThrows(t)
    \/ \E t \in Clients : WorkCommit(t)
    \/ \E t \in Clients : WorkEnd(t)
    \/ \E t \in Clients : ClientHandleDtor(t)
    \/ \E t \in Clients : DtorCheck(t)
    \/ \E t \in Clients : DtorMoveRead(t)
    \/ \E t \in Clients : DtorMoveNull(t)
    \/ \E t \in Clients : ReleaseLock(t)
    \/ \E t \in Clients : ReleasePush(t)
    \/ \E t \in Clients : ReleaseNotify(t)
    \/ \E t \in Clients : ReleaseUnlock(t)
    \/ \E t \in Clients : DtorDone(t)
    \/ \E t \in Clients : ClientReturn(t)
    \/ \E t \in Clients : ClientThrow(t)

SpecStore == Init /\ [][StoreNext]_vars

\* the store answers SELECT COUNT(*) with a result that has no rows
WorkExecNoRows(t) ==
    /\ pc[t] = "holding"
    /\ work[t] = "open"
    /\ call[t] = "GetCount"
    /\ schema
    /\ work' = [work EXCEPT ![t] = "executed"]
    /\ res' = [res EXCEPT ![t] = <<>>]
    /\ UNCHANGED <<call, ret, fail, clientHist>>
    /\ UNCHANGED <<poolVars, pc, conn_, relArg, dtorOf, histVars, faultVars>>
    /\ UNCHANGED <<loopVars, callVars, netVars, storeVars, srvHist, respVars, cfgVars,
                 resolveVars>>

\* GetCount evaluates res[0][0].as<uint64_t>() on a result without rows:
\* result::operator[] and row::operator[] do not check their index, the
\* field read is outside the result. The conversion throws, or it yields
\* whatever the read produced.
GetCountNoRows(t) ==
    /\ call[t] = "GetCount"
    /\ pc[t] = "idle"
    /\ work[t] = "closed"
    /\ ~fail[t]
    /\ res[t] = <<>>
    /\ \/ /\ fail' = [fail EXCEPT ![t] = TRUE]
          /\ UNCHANGED <<call, work, ret, maxRet>>
       \/ /\ \E v \in 0..MaxCalls :
                /\ ret' = [ret EXCEPT ![t] = v]
                /\ maxRet' = Max(maxRet, v)
          /\ call' = [call EXCEPT ![t] = "none"]
          /\ work' = [work EXCEPT ![t] = "none"]
          /\ UNCHANGED fail
    /\ UNCHANGED <<res, calls, marksDone, initsDone, atCall>>
    /\ UNCHANGED <<poolVars, pc, conn_, relArg, dtorOf, histVars, faultVars>>
    /\ UNCHANGED <<loopVars, callVars, netVars, storeVars, srvHist, respVars, cfgVars,
                 resolveVars>>

StoreAnyNext ==
    \/ StoreNext
    \/ \E t \in Clients : WorkExecNoRows(t)
    \/ \E t \in Clients : GetCountNoRows(t)

SpecStoreAny == Init /\ [][StoreAnyNext]_vars

\* ========================================================= the configuration
\* ConfigManager for one option of type int: the configured text is converted
\* and stored (LoadConfigWithInterpolation), read back (GetInt, through
\* GetConnectionPoolSize or GetCentralServerPort), and PostgresDatabase
\* computes the size of its pool from it. Texts are sequences of characters;
\* they are short, so that no number in them leaves the range of int.
\*
\*   SpecConfig  every option, configured text and num_connections

\* the options that main reads through GetInt, with their default values
OptionNames == {"CONNECTION_POOL_SIZE", "CENTRAL_SERVER_PORT"}
DefaultOf == [CONNECTION_POOL_SIZE |-> kDefaultConnectionPoolSize,
              CENTRAL_SERVER_PORT  |-> kDefaultCentralServerPort]

\* the characters a configured text is made of, and the texts
TextChars == {"-", "0", "1", "a", " "}
Texts == UNION {[1..n -> TextChars] : n \in 0..MaxTextLen}

IsDigit(c) == \E d \in 0..9 : DigitChars[d + 1] = c

\* the text after its leading white space, as strtol skips it
RECURSIVE SkipSpace(_)
SkipSpace(s) == IF s # <<>> /\ Head(s) = " " THEN SkipSpace(Tail(s)) ELSE s

\* the longest prefix of s made of digits
RECURSIVE DigitPrefix(_)
DigitPrefix(s) ==
    IF s # <<>> /\ IsDigit(Head(s)) THEN <<Head(s)>> \o DigitPrefix(Tail(s)) ELSE <<>>

\* boost::lexical_cast<int>(s), which typed_value<int>::parse applies: an
\* optional sign and digits, nothing before, between or after them
LexicalCastInt(s) ==
    LET signed == s # <<>> /\ Head(s) \in {"-", "+"}
        body == IF signed THEN Tail(s) ELSE s
        ok == body # <<>> /\ \A i \in 1..Len(body) : IsDigit(body[i])
    IN [ok |-> ok,
        val |-> IF ~ok THEN 0
                ELSE IF signed /\ Head(s) = "-" THEN 0 - AsUint64(body)
                ELSE AsUint64(body)]

\* std::stoi(s): white space is skipped, then an optional sign and the digits
\* that follow are converted, whatever comes after them is ignored; without a
\* digit it throws
Stoi(s) ==
    LET r == SkipSpace(s)
        signed == r # <<>> /\ Head(r) \in {"-", "+"}
        digits == DigitPrefix(IF signed THEN Tail(r) ELSE r)
        ok == digits # <<>>
    IN [ok |-> ok,
        val |-> IF ~ok THEN 0
                ELSE IF signed /\ Head(r) = "-" THEN 0 - AsUint64(digits)
                ELSE AsUint64(digits)]

\* the boost::any stored for a value
IntValue(v) == [kind |-> "int", int |-> v, str |-> <<>>]
StringValue(s) == [kind |-> "string", int |-> 0, str |-> s]

\* ConvertValueUsingDescriptor for an option declared value<int>():
\* TryParseWithSemantic parses with lexical_cast; when that throws,
\* HandleSemanticParseFailure tries std::stoi; when that throws too, a warning
\* is printed and the text itself is stored, as a string
ConvertValueUsingDescriptor(name, value) ==
    IF LexicalCastInt(value).ok THEN IntValue(LexicalCastInt(value).val)
    ELSE IF Stoi(value).ok THEN IntValue(Stoi(value).val)
    ELSE StringValue(value)

\* ConfigManager::Has
Has(name) == vm_[name].kind # "absent"

\* ConfigManager::Get<int>: as<int>() of a stored string throws
\* boost::bad_any_cast, which is caught: the result is then int{}
Get(name) ==
    IF Has(name) THEN (IF vm_[name].kind = "int" THEN vm_[name].int ELSE 0) ELSE 0

\* ConfigManager::GetInt
GetInt(name, default_value) == IF Has(name) THEN Get(name) ELSE default_value

GetConnectionPoolSize == GetInt("CONNECTION_POOL_SIZE", kDefaultConnectionPoolSize)
GetCentralServerPort == GetInt("CENTRAL_SERVER_PORT", kDefaultCentralServerPort)

\* the conversion of an int or of a small uint64_t to uint64_t, as four
\* 16-bit limbs, lowest first: a negative int n becomes 2^64 + n
ToUint64(n) ==
    <<n % LimbBase, (n \div LimbBase) % LimbBase,
      IF n < 0 THEN LimbBase - 1 ELSE 0, IF n < 0 THEN LimbBase - 1 ELSE 0>>

\* the environment and the configuration file give the option a text, or not
InitConfig ==
    /\ ProgramInit
    /\ ResolveIdle
    /\ cfgPc = "load"
    /\ \E n \in OptionNames, present \in BOOLEAN, s \in Texts, k \in 0..MaxNumConnections :
         /\ ~present => s = <<>>
         /\ cfgIn = [name |-> n, present |-> present, text |-> s, num |-> k]
    /\ vm_ = [n \in OptionNames |-> [kind |-> "absent", int |-> 0, str |-> <<>>]]
    /\ got = 0
    /\ sizeArg = <<0, 0, 0, 0>>
    /\ puts = <<>>

\* LoadConfigWithInterpolation: every configured value is converted and
\* inserted into vm_
LoadConfig ==
    /\ cfgPc = "load"
    /\ vm_' = IF cfgIn.present
              THEN [vm_ EXCEPT ![cfgIn.name] =
                        ConvertValueUsingDescriptor(cfgIn.name, cfgIn.text)]
              ELSE vm_
    /\ cfgPc' = "loaded"
    /\ UNCHANGED <<cfgIn, got, sizeArg, puts>>
    /\ UNCHANGED <<clientVars, clientHist>>
    /\ UNCHANGED <<poolVars, pc, conn_, relArg, dtorOf, histVars, faultVars>>
    /\ UNCHANGED <<loopVars, callVars, netVars, storeVars, srvHist, respVars,
                 resolveVars>>

\* GetConnectionPoolSize() or GetCentralServerPort() is called
CallGetInt ==
    /\ cfgPc = "loaded"
    /\ got' = IF cfgIn.name = "CONNECTION_POOL_SIZE" THEN GetConnectionPoolSize
              ELSE GetCentralServerPort
    /\ cfgPc' = "got"
    /\ UNCHANGED <<cfgIn, vm_, sizeArg, puts>>
    /\ UNCHANGED <<clientVars, clientHist>>
    /\ UNCHANGED <<poolVars, pc, conn_, relArg, dtorOf, histVars, faultVars>>
    /\ UNCHANGED <<loopVars, callVars, netVars, storeVars, srvHist, respVars,
                 resolveVars>>

\* PostgresDatabase(num_connections): the first argument of conn_pool_,
\* num_connections > 0 ? num_connections : GetConfig().GetConnectionPoolSize(),
\* of type uint64_t
PoolSizeArg ==
    /\ cfgPc = "got"
    /\ sizeArg' = IF cfgIn.num > 0 THEN ToUint64(cfgIn.num)
                  ELSE ToUint64(GetConnectionPoolSize)
    /\ cfgPc' = "sized"
    /\ UNCHANGED <<cfgIn, vm_, got, puts>>
    /\ UNCHANGED <<clientVars, clientHist>>
    /\ UNCHANGED <<poolVars, pc, conn_, relArg, dtorOf, histVars, faultVars>>
    /\ UNCHANGED <<loopVars, callVars, netVars, storeVars, srvHist, respVars,
                 resolveVars>>

\* ConfigManager::GetString: Get<std::string> of a stored int throws
\* boost::bad_any_cast, which is caught: the result is then std::string{}
GetString(name, default_value) ==
    IF Has(name) THEN (IF vm_[name].kind = "string" THEN vm_[name].str ELSE <<>>)
    ELSE default_value

\* ConfigManager::Put: vm_.insert(make_pair(name, variable_value(value, false)));
\* std::map::insert leaves an entry that is already there as it is
Put(name, value) ==
    IF vm_[name].kind # "absent" THEN vm_
    ELSE [vm_ EXCEPT ![name] = StringValue(value)]

\* Put(name, value) is called on the loaded configuration
CallPut ==
    /\ cfgPc \in {"loaded", "put"}
    /\ Len(puts) < MaxPuts
    /\ \E n \in OptionNames, v \in Texts :
         /\ vm_' = Put(n, v)
         /\ puts' = Append(puts, [name |-> n, value |-> v])
    /\ cfgPc' = "put"
    /\ UNCHANGED <<cfgIn, got, sizeArg>>
    /\ UNCHANGED <<clientVars, clientHist>>
    /\ UNCHANGED <<poolVars, pc, conn_, relArg, dtorOf, histVars, faultVars>>
    /\ UNCHANGED <<loopVars, callVars, netVars, storeVars, srvHist, respVars,
                 resolveVars>>

ConfigNext ==
    \/ LoadConfig
    \/ CallGetInt
    \/ PoolSizeArg
    \/ CallPut

SpecConfig == InitConfig /\ [][ConfigNext]_vars

\* ============================================================ ResolveNested
\* ConfigManager::ResolveNested as it executes: the merge of its two maps,
\* the final loop over map_full, and the calls of the recursive lambda
\* resolve, each with its while loop over the matches of ${name}. Keys and
\* values are sequences of characters.
\*
\*   SpecResolve      every pair of maps over the keys, within the bounds
\*   FairSpecResolve  SpecResolve in which the run always takes its next step

\* the keys of the maps, and a name that is no key
Keys == {<<"A">>, <<"B">>}

\* a value is made of these pieces: a character, a placeholder of a key, a
\* placeholder of a name that is not defined
Pieces == {<<"x">>, <<"$", "{", "A", "}">>, <<"$", "{", "B", "}">>,
           <<"$", "{", "U", "}">>}

RECURSIVE ValuesOf(_)
ValuesOf(n) ==
    IF n = 0 THEN {<<>>}
    ELSE ValuesOf(n - 1) \cup {v \o q : v \in ValuesOf(n - 1), q \in Pieces}

\* the maps from some of the keys to values of at most n pieces
MapsOf(n) == UNION {[S -> ValuesOf(n)] : S \in SUBSET Keys}

\* std::regex_search(s, match, pattern) with the pattern \$\{([^}]+)\} finds a
\* match at i when s has "${" there, then at least one character that is
\* not "}", then "}"
CloseAt(s, i) ==
    IF \E j \in (i + 2)..Len(s) : s[j] = "}"
    THEN CHOOSE j \in (i + 2)..Len(s) :
             s[j] = "}" /\ \A k \in (i + 2)..(j - 1) : s[k] # "}"
    ELSE 0
MatchAt(s, i) ==
    /\ i + 3 <= Len(s)
    /\ s[i] = "$"
    /\ s[i + 1] = "{"
    /\ CloseAt(s, i) >= i + 3

\* whether regex_search finds a match, and the leftmost one: match.position(),
\* its last index, match[0] and match[1]
HasMatch(s) == \E i \in 1..Len(s) : MatchAt(s, i)
MatchPosition(s) ==
    CHOOSE i \in 1..Len(s) : MatchAt(s, i) /\ \A k \in 1..(i - 1) : ~MatchAt(s, k)
MatchEnd(s) == CloseAt(s, MatchPosition(s))
MatchText(s) == SubSeq(s, MatchPosition(s), MatchEnd(s))
MatchName(s) == SubSeq(s, MatchPosition(s) + 2, MatchEnd(s) - 1)

\* result.replace(match.position(), match.length(), replacement)
Replace(s, replacement) ==
    SubSeq(s, 1, MatchPosition(s) - 1) \o replacement \o SubSeq(s, MatchEnd(s) + 1, Len(s))

\* map_full = map_env; for (name, value) in map_file: map_full[name] = value;
Merged(env, file) ==
    [k \in DOMAIN env \cup DOMAIN file |-> IF k \in DOMAIN file THEN file[k] ELSE env[k]]

\* the call of resolve that is executing
Top == stack[Len(stack)]
Caller == SubSeq(stack, 1, Len(stack) - 1)

\* everything ResolveNested does not touch
programVars == <<poolVars, pc, conn_, relArg, dtorOf, histVars, faultVars,
                 clientVars, clientHist, cfgVars, respVars,
                 loopVars, callVars, netVars, storeVars, srvHist>>

\* the environment and the configuration file give values to some keys
InitResolve ==
    /\ ProgramInit
    /\ ConfigIdle
    /\ rpc = "start"
    /\ map_env \in MapsOf(MaxEnvTokens)
    /\ map_file \in MapsOf(MaxTokens)
    /\ map_full = <<>>
    /\ map_resolved = <<>>
    /\ processing = {}
    /\ todo = {}
    /\ stack = <<>>
    /\ retval = <<>>

\* map_full is built, then the final loop begins
Merge ==
    /\ rpc = "start"
    /\ map_full' = Merged(map_env, map_file)
    /\ todo' = DOMAIN map_env \cup DOMAIN map_file
    /\ rpc' = "loop"
    /\ UNCHANGED <<map_env, map_file, map_resolved, processing, stack, retval>>
    /\ UNCHANGED programVars

\* for (name, value) in map_full: resolve(name, value), in the order in which
\* the unordered_map yields its entries
LoopCall ==
    /\ rpc = "loop"
    /\ \E k \in todo :
         /\ todo' = todo \ {k}
         /\ stack' = <<[key |-> k, value |-> map_full[k], result |-> <<>>]>>
    /\ rpc' = "enter"
    /\ UNCHANGED <<map_env, map_file, map_full, map_resolved, processing, retval>>
    /\ UNCHANGED programVars

\* the loop has visited every entry: return map_resolved
LoopEnd ==
    /\ rpc = "loop"
    /\ todo = {}
    /\ rpc' = "done"
    /\ UNCHANGED <<map_env, map_file, map_full, map_resolved, processing, todo,
                   stack, retval>>
    /\ UNCHANGED programVars

\* if (processing.contains(key)) { std::cerr << ...; return value; }
EnterCircular ==
    /\ rpc = "enter"
    /\ Top.key \in processing
    /\ retval' = Top.value
    /\ stack' = Caller
    /\ rpc' = "return"
    /\ UNCHANGED <<map_env, map_file, map_full, map_resolved, processing, todo>>
    /\ UNCHANGED programVars

\* if (map_resolved.contains(key)) return map_resolved[key];
EnterResolved ==
    /\ rpc = "enter"
    /\ Top.key \notin processing
    /\ Top.key \in DOMAIN map_resolved
    /\ retval' = map_resolved[Top.key]
    /\ stack' = Caller
    /\ rpc' = "return"
    /\ UNCHANGED <<map_env, map_file, map_full, map_resolved, processing, todo>>
    /\ UNCHANGED programVars

\* processing.insert(key); std::string result = value;
EnterNew ==
    /\ rpc = "enter"
    /\ Top.key \notin processing
    /\ Top.key \notin DOMAIN map_resolved
    /\ processing' = processing \cup {Top.key}
    /\ stack' = [stack EXCEPT ![Len(stack)].result = Top.value]
    /\ rpc' = "search"
    /\ UNCHANGED <<map_env, map_file, map_full, map_resolved, todo, retval>>
    /\ UNCHANGED programVars

\* while (regex_search(result, match, pattern)) with a match whose name is a
\* key: replacement = resolve(placeholder, map_full[placeholder])
SearchDefined ==
    /\ rpc = "search"
    /\ HasMatch(Top.result)
    /\ MatchName(Top.result) \in DOMAIN map_full
    /\ stack' = Append(stack, [key |-> MatchName(Top.result),
                               value |-> map_full[MatchName(Top.result)],
                               result |-> <<>>])
    /\ rpc' = "enter"
    /\ UNCHANGED <<map_env, map_file, map_full, map_resolved, processing, todo, retval>>
    /\ UNCHANGED programVars

\* ... with a match whose name is no key: replacement = match[0].str()
SearchUndefined ==
    /\ rpc = "search"
    /\ HasMatch(Top.result)
    /\ MatchName(Top.result) \notin DOMAIN map_full
    /\ retval' = MatchText(Top.result)
    /\ rpc' = "replace"
    /\ UNCHANGED <<map_env, map_file, map_full, map_resolved, processing, todo, stack>>
    /\ UNCHANGED programVars

\* ... without a match, the loop ends: processing.erase(key);
\* map_resolved[key] = result; return result;
SearchEnd ==
    /\ rpc = "search"
    /\ ~HasMatch(Top.result)
    /\ processing' = processing \ {Top.key}
    /\ map_resolved' = [k \in DOMAIN map_resolved \cup {Top.key} |->
                           IF k = Top.key THEN Top.result ELSE map_resolved[k]]
    /\ retval' = Top.result
    /\ stack' = Caller
    /\ rpc' = "return"
    /\ UNCHANGED <<map_env, map_file, map_full, todo>>
    /\ UNCHANGED programVars

\* a call of resolve returns: to the while loop of the call that made it, or
\* to the final loop, which drops the value
Return ==
    /\ rpc = "return"
    /\ rpc' = IF stack = <<>> THEN "loop" ELSE "replace"
    /\ UNCHANGED <<map_env, map_file, map_full, map_resolved, processing, todo,
                   stack, retval>>
    /\ UNCHANGED programVars

\* result.replace(match.position(), match.length(), replacement), and the
\* loop searches result again, from its beginning
ReplaceMatch ==
    /\ rpc = "replace"
    /\ Len(Replace(Top.result, retval)) <= MaxResultLen
    /\ stack' = [stack EXCEPT ![Len(stack)].result = Replace(Top.result, retval)]
    /\ rpc' = "search"
    /\ UNCHANGED <<map_env, map_file, map_full, map_resolved, processing, todo, retval>>
    /\ UNCHANGED programVars

ResolveNext ==
    \/ Merge
    \/ LoopCall
    \/ LoopEnd
    \/ EnterCircular
    \/ EnterResolved
    \/ EnterNew
    \/ SearchDefined
    \/ SearchUndefined
    \/ SearchEnd
    \/ Return
    \/ ReplaceMatch

SpecResolve == InitResolve /\ [][ResolveNext]_vars

\* the run is not suspended: while a step is possible, one is taken
FairSpecResolve == SpecResolve /\ WF_vars(ResolveNext)

\* ------------------------------------------------------------------- claims
\* C1: for a pool of size N, in every reachable state of any interleaving of
\* Acquire calls and handle destructions, the number of resources in the idle
\* collection plus the number of outstanding handles equals N.
C1_IdlePlusOutstandingIsSize ==
    poolState = "ready" =>
        Len(connections_) + Cardinality(OutstandingHandles) = size_

\* C1 witness: one thread is in the middle of Release (resource pushed, not yet
\* unlocked) while another handle is outstanding and a third thread is in Acquire
C1_Witness ==
    \E t, u, v \in Threads :
        /\ pc[t] = "rel_notify"
        /\ pc[u] = "holding"
        /\ pc[v] \in InAcquire
        /\ Len(connections_) = 1

\* C2: at most N handles are outstanding at any instant, so at most N callers
\* are in their store interaction; while N handles are outstanding no further
\* Acquire is past its wait, i.e. none can return before a release.
C2_AtMostSizeOutstanding ==
    poolState = "ready" =>
        /\ Cardinality(OutstandingHandles) <= size_
        /\ Cardinality({t \in Threads : pc[t] = "holding"}) <= size_
        /\ Cardinality(OutstandingHandles) = size_ =>
               \A t \in Threads : pc[t] # "acq_take"

\* C2 witness: all N handles are outstanding and a further Acquire is blocked
C2_Witness ==
    /\ poolState = "ready"
    /\ Cardinality({t \in Threads : pc[t] = "holding"}) = size_
    /\ \E t \in Threads : pc[t] = "acq_blocked" /\ t \in cvWaiters

\* C3: every resource has exactly one owner at every instant: it is in the idle
\* collection exactly once, or it belongs to exactly one handle; never to two
\* handles, never idle and held, never twice idle.
C3_ExclusiveOwnership ==
    poolState = "ready" =>
        /\ NULL \notin Range(connections_)
        /\ \A r \in 1..size_ :
               Occurrences(connections_, r)
                   + Cardinality({t \in Threads : r \in Held(t)}) = 1

\* C3 witness: a resource that went through a release is held again by a handle
\* while the other resource is on its way back and a thread waits in Acquire
C3_Witness ==
    \E t, u \in Threads :
        /\ t # u
        /\ size_ = 2
        /\ conn_[t] = 2
        /\ relArg[u] = 1
        /\ pc[u] = "rel_push"
        /\ pushes[t] = 0
        /\ idleOrder = <<>>
        /\ Blocked # {}

\* C7: Acquire has no failure or timeout outcome: a thread leaves Acquire only
\* by returning a handle, and it returns only after removing the front of a
\* non-empty idle collection itself; a waiter that wakes up (spuriously, or
\* after its resource was taken by another thread) and finds the collection
\* empty waits again; nothing is removed from an empty collection and no handle
\* is returned without a resource.
C7_AcquireReturnsOnlyWithResource ==
    [][\A t \in Threads :
          /\ (pc[t] \in InAcquire /\ pc'[t] \notin InAcquire) =>
                 /\ pc'[t] = "holding"
                 /\ connections_ # <<>>
                 /\ conn_'[t] = Head(connections_)
                 /\ conn_'[t] # NULL
                 /\ connections_' = Tail(connections_)
          /\ (pc[t] = "acq_wait_pred" /\ pc'[t] # pc[t] /\ connections_ = <<>>) =>
                 /\ pc'[t] = "acq_blocked"
                 /\ t \in cvWaiters'
      ]_vars

\* C7 witness: a waiter was woken and the idle collection is empty again
\* because another thread took the released resource first
C7_Witness ==
    \E t, u, v \in Threads :
        /\ pc[t] = "acq_blocked"
        /\ t \notin cvWaiters
        /\ connections_ = <<>>
        /\ pc[u] = "holding"
        /\ pc[v] = "dtor_done"
        /\ pushes[v] = 1

\* C8: a Release appends exactly one resource to the idle collection and its
\* notification unblocks exactly one of the threads blocked in wait, if there
\* is one; with k >= 2 waiters the other k-1 stay blocked, and no more threads
\* are past the wait than there are idle resources.
C8_ReleaseAppendsOneWakesOne ==
    /\ [](Cardinality({t \in Threads : pc[t] = "acq_take"}) <= Len(connections_))
    /\ [][\A t \in Threads :
            /\ (pc[t] = "rel_push" /\ pc'[t] # pc[t]) =>
                   /\ Len(connections_') = Len(connections_) + 1
                   /\ connections_'[Len(connections_')] = relArg[t]
                   /\ cvWaiters' = cvWaiters
            /\ (pc[t] = "rel_notify" /\ pc'[t] # pc[t]) =>
                   /\ connections_' = connections_
                   /\ cvWaiters' \subseteq cvWaiters
                   /\ Cardinality(cvWaiters') =
                          IF cvWaiters = {} THEN 0 ELSE Cardinality(cvWaiters) - 1
        ]_vars

\* C8 witness: two threads were blocked on the empty pool, a Release has just
\* notified: one of them is unblocked, the other is still blocked in wait
C8_Witness ==
    \E t, u, v \in Threads :
        /\ pc[t] = "rel_unlock"
        /\ pc[u] = "acq_blocked" /\ u \notin cvWaiters
        /\ pc[v] = "acq_blocked" /\ v \in cvWaiters
        /\ Len(connections_) = 1

\* C9: the idle collection is a FIFO queue: it lists the idle resources in the
\* order in which they became idle, Release appends at the back, and Acquire
\* hands out the front, which is the resource that has been idle the longest.
C9_FifoIdleQueue ==
    /\ [](poolState = "ready" => connections_ = idleOrder)
    /\ [][\A t \in Threads :
            /\ (pc[t] = "acq_take" /\ pc'[t] # pc[t]) =>
                   /\ idleOrder # <<>>
                   /\ conn_'[t] = Head(idleOrder)
            /\ (pc[t] = "rel_push" /\ pc'[t] # pc[t]) =>
                   connections_' = Append(connections_, relArg[t])
        ]_vars

\* C9 witness: the resources came back in another order than they were created
\* in, and the one returned first is at the front
C9_Witness ==
    /\ poolState = "ready"
    /\ connections_ = <<2, 1>>
    /\ \E t \in Threads : pc[t] = "acq_take"

\* C10: when the constructor returns, the idle collection holds exactly size_
\* distinct resources and no handle is outstanding; afterwards size_ never
\* changes and the set of resources of the pool stays the same.
C10_ResourceSetFixed ==
    /\ [](poolState = "ready" =>
            /\ AllResources = 1..size_
            /\ size_ \in 1..MaxPoolSize)
    /\ [][(poolState = "constructing" /\ poolState' = "ready") =>
            /\ Len(connections_') = size_'
            /\ Range(connections_') = 1..size_'
            /\ OutstandingHandles' = {}]_vars
    /\ [][poolState = "ready" => size_' = size_]_vars

\* C10 witness: long after construction every resource of the pool is held by
\* a handle that got it from a Release, and the idle collection is empty
C10_Witness ==
    /\ poolState = "ready"
    /\ size_ = MaxPoolSize
    /\ connections_ = <<>>
    /\ Cardinality({t \in Threads : pc[t] = "holding"}) = size_
    /\ \E t \in Threads : pc[t] = "dtor_done"

\* C4 as claimed: under fair scheduling, whenever some threads are blocked in
\* Acquire, one of these blocked threads eventually gets a handle.
C4_SomeBlockedAcquireReturns ==
    \A S \in (SUBSET Threads) \ {{}} :
        (Blocked = S) ~> (\E t \in S : pc[t] = "holding")

\* C4 amended: under fair scheduling, whenever a thread is blocked in Acquire,
\* some Acquire (of a waiter, or of a thread that called later and got the
\* mutex first) eventually passes the wait and returns a handle; and no waiter
\* stays blocked forever while the idle collection stays non-empty.
C4_SomeAcquireProceeds ==
    /\ (Blocked # {}) ~> (\E t \in Threads : pc[t] = "acq_take")
    /\ \A t \in Threads :
         []<>(pc[t] # "acq_blocked" \/ connections_ = <<>>)

\* C4 witness: a waiter has been notified by a Release and the resource is idle
C4_Witness ==
    \E t, u \in Threads :
        /\ pc[t] = "acq_blocked"
        /\ t \notin cvWaiters
        /\ connections_ # <<>>
        /\ pc[u] = "rel_unlock"

\* C5: a handle returns its resource exactly once, also when its destructor is
\* entered by two threads at once: no resource is pushed twice for one handle
\* and no resource ever exists as two copies.
C5_ReleasedExactlyOnce ==
    poolState = "ready" =>
        /\ \A t \in Threads : pushes[t] <= 1
        /\ \A r \in 1..size_ :
               Occurrences(connections_, r)
                   + Cardinality({t \in Threads : r \in Held(t)}) <= 1

\* C6: destroying a handle never propagates a failure: whatever goes wrong
\* while the resource is returned, also with the pool already torn down, the
\* process is not brought down, and a resource that could not be returned has
\* left a diagnostic.
C6_DestructorSwallowsEveryFailure ==
    /\ ~crashed
    /\ (poolState = "ready" /\ AllResources # 1..size_
          /\ \A t \in Threads : pc[t] # "dtor_catch") => diag

\* ------------------------------------------------- claims about the server
IsPrefix(a, b) == Len(a) <= Len(b) /\ a = SubSeq(b, 1, Len(a))

\* event a is in the log, and before event b if b is in it
Before(log, a, b) ==
    /\ a \in Range(log)
    /\ \A i, j \in 1..Len(log) : (log[i] = a /\ log[j] = b) => i < j

\* the state of the session of connection s in terms of section 4.4
SessionState(s) ==
    IF life[s] = "unborn" THEN "None"
    ELSE IF life[s] = "destroyed" THEN "Closed"
    ELSE IF "read_ok" \in Range(slog[s]) THEN "Writing"
    ELSE IF "read" \in Range(slog[s]) THEN "Reading"
    ELSE "Created"

\* a Data Service operation made for session s holds a Scoped Handle
HoldsHandle(s) ==
    /\ cur = s
    /\ op = "GetCount"
    /\ OutstandingHandles # {}

FullUnitOfWork == <<"begin", "exec", "commit", "end">>

OkOrder == <<"markvisit", "create", "start", "read", "arm",
             "read_ok", "getcount", "write", "write_ok", "close">>
ReadErrOrder == <<"markvisit", "create", "start", "read", "arm",
                  "read_err", "close">>
WriteErrOrder == <<"markvisit", "create", "start", "read", "arm",
                   "read_ok", "getcount", "write", "write_err", "close">>

\* C11: pool construction is all-or-nothing: the constructor ends either with
\* all size_ resources idle, or, when creating a resource fails, with the
\* failure propagating to main and no pool; no operation ever runs Acquire on
\* a pool that is not complete, and what a failed construction had created
\* is destroyed.
C11_PoolConstructionAllOrNothing ==
    /\ [][(poolState = "constructing" /\ poolState' # "constructing") =>
            \/ poolState' = "ready" /\ Len(connections_') = size_'
            \/ poolState' = "failed" /\ exc' /\ mainPc' = "unwind"]_vars
    /\ [](poolState = "failed" =>
            /\ op = "none"
            /\ pc[LoopThread] = "idle"
            /\ mainPc \in {"unwind", "main_catch", "exited"})
    /\ []((op # "none" /\ ~exc) =>
            /\ poolState = "ready"
            /\ AllResources = 1..size_)
    /\ [](mainPc \in {"main_catch", "exited"} => connections_ = <<>>)

\* C11 witness: the second of two resources could not be created; the
\* exception is on its way to main and the first resource is not yet destroyed
C11_Witness ==
    /\ poolState = "failed"
    /\ size_ = 2
    /\ Len(connections_) = 1
    /\ mainPc = "unwind"

\* C12: once an exception was thrown during startup (by the pool constructor,
\* by Initialize called from main or from Server::Server, or by the acceptor),
\* main only unwinds and exits: no accept is ever armed, no connection is
\* accepted, no session exists and the event loop is never run.
C12_StartupFailureIsFatal ==
    /\ [](startupFailed =>
            /\ ~everArmed
            /\ acceptPending = 0
            /\ accepted = 0
            /\ \A s \in Sessions : life[s] = "unborn" /\ slog[s] = <<>>
            /\ mainPc \in StartupPcs \cup {"unwind", "main_catch", "exited"})
    /\ [][(startupFailed' /\ mainPc' # mainPc) =>
            mainPc' \in {"unwind", "main_catch", "exited"}]_vars

\* C12 witness: Initialize succeeded in main and failed in Server::Server,
\* and main has exited
C12_Witness ==
    /\ startupFailed
    /\ schema
    /\ opLog = <<"begin", "exec_failed", "end">>
    /\ mainPc = "exited"

\* C13: every Data Service operation acquires one handle, then opens one
\* transaction on the held resource, executes one statement and commits, and
\* only then is the handle destroyed; when the operation returns, the
\* resource is back in the idle collection.
C13_UnitOfWorkSequence ==
    /\ [](pc[LoopThread] \in InAcquire => op # "none" /\ txn = "none" /\ opLog = <<>>)
    /\ [](txn \in {"open", "executed", "committed"} =>
            /\ pc[LoopThread] = "holding"
            /\ conn_[LoopThread] # NULL
            /\ Cardinality(OutstandingHandles) = 1)
    /\ [](IsPrefix(opLog, FullUnitOfWork))
    /\ [][(pc[LoopThread] = "holding" /\ pc'[LoopThread] # "holding") =>
            opLog = FullUnitOfWork]_vars
    /\ [][(op # "none" /\ op' = "none") =>
            /\ opLog = FullUnitOfWork
            /\ OutstandingHandles' = {}
            /\ Len(connections_') = size_']_vars
    /\ []((op = "none" /\ poolState = "ready") =>
            Len(connections_) = size_ /\ pc[LoopThread] = "idle")

\* C13 witness: GetCount has committed and released, and is about to return
C13_Witness ==
    /\ op = "GetCount"
    /\ opLog = FullUnitOfWork
    /\ pc[LoopThread] = "dtor_done"
    /\ Len(connections_) = size_

\* C14 as claimed: with pool size 2 and three sessions connected at the same
\* time, the GetCount of the third of them finds no idle resource when it
\* reaches the wait of Acquire (the other two hold both resources).
C14_ThirdGetCountWaits ==
    (/\ size_ = 2
     /\ op = "GetCount"
     /\ pc[LoopThread] = "acq_wait_pred"
     /\ Cardinality(Alive) = 3
     /\ Cardinality({s \in Alive \ {cur} : "getcount" \in Range(slog[s])}) = 2)
        => connections_ = <<>>

\* C14 amended: the one thread of the event loop runs the handlers one at a
\* time and every GetCount acquires and releases inside its handler: never
\* more than one query is in flight, whatever the number of sessions, every
\* Acquire finds all size_ resources idle, and no GetCount waits in Acquire.
C14_QueriesRunOneAtATime ==
    /\ Cardinality(OutstandingHandles) <= 1
    /\ Cardinality({t \in Threads : pc[t] \notin {"idle", "aborted"}}) <= 1
    /\ \A t \in Threads : pc[t] # "acq_blocked"
    /\ cvWaiters = {}
    /\ pc[LoopThread] \in {"acq_lock", "acq_wait_pred", "acq_take"} =>
           Len(connections_) = size_

\* C14 witness: pool size 2, three sessions connected, two of them have made
\* their GetCount and wait for their write, the third holds a resource in
\* its GetCount and the other resource is idle
C14_Witness ==
    /\ size_ = 2
    /\ op = "GetCount"
    /\ pc[LoopThread] = "holding"
    /\ txn = "executed"
    /\ Len(connections_) = 1
    /\ Cardinality(Alive) = 3
    /\ Cardinality({s \in Alive \ {cur} : pendingOp[s] = "write"}) = 2

\* C15: a session only moves Created -> Reading -> Writing -> Closed, or
\* Reading -> Closed after a failed read; it issues at most one read, one
\* GetCount and one write, GetCount only after the read has completed
\* successfully and the write only after GetCount.
C15_SessionStateMachine ==
    /\ [][\A s \in Sessions :
            SessionState(s)' # SessionState(s) =>
                \/ <<SessionState(s), SessionState(s)'>> \in
                       {<<"None", "Created">>, <<"Created", "Reading">>,
                        <<"Reading", "Writing">>, <<"Writing", "Closed">>}
                \/ /\ <<SessionState(s), SessionState(s)'>> = <<"Reading", "Closed">>
                   /\ "read_err" \in Range(slog[s])]_vars
    /\ [](\A s \in Sessions :
            /\ Occurrences(slog[s], "read") <= 1
            /\ Occurrences(slog[s], "getcount") <= 1
            /\ Occurrences(slog[s], "write") <= 1
            /\ "read_ok" \in Range(slog[s]) => Before(slog[s], "read", "read_ok")
            /\ "getcount" \in Range(slog[s]) => Before(slog[s], "read_ok", "getcount")
            /\ "write" \in Range(slog[s]) => Before(slog[s], "getcount", "write")
            /\ (cur = s /\ mainPc \in {"wr_getcount", "wr_issue", "wr_return"}) =>
                   SessionState(s) = "Writing")

\* C15 witness: one session is Closed after its write, one is Closed after a
\* failed read, one is Writing and calls GetCount
C15_Witness ==
    \E s, u, v \in Sessions :
        /\ slog[s] = OkOrder
        /\ slog[u] = ReadErrOrder
        /\ SessionState(v) = "Writing"
        /\ cur = v
        /\ op = "GetCount"

\* C16: a read or write error ends only the session it happened to, and
\* silently: after a failed read the session makes no GetCount and no write,
\* no operation is issued again, no exception is raised, the steps of the
\* failing handler change nothing of any other session, of the acceptor or of
\* the store, and an accept stays armed.
C16_IoErrorAbortsOnlyThatSession ==
    /\ [](\A s \in Sessions :
            /\ "read_err" \in Range(slog[s]) =>
                   /\ "getcount" \notin Range(slog[s])
                   /\ "write" \notin Range(slog[s])
                   /\ Occurrences(slog[s], "read") = 1
                   /\ pendingOp[s] = "none"
            /\ "write_err" \in Range(slog[s]) =>
                   /\ Occurrences(slog[s], "write") = 1
                   /\ Occurrences(slog[s], "getcount") = 1
                   /\ pendingOp[s] = "none")
    /\ [](~exc /\ mainPc \notin {"unwind", "main_catch", "exited"})
    /\ [][(ec' = "err" /\ mainPc' # mainPc
             /\ (mainPc' \in {"rd_check", "wr_end"} \/ mainPc \in {"rd_check", "rd_end", "wr_end"})) =>
            /\ \A u \in Sessions \ {cur, cur'} :
                   /\ life'[u] = life[u]
                   /\ refs'[u] = refs[u]
                   /\ pendingOp'[u] = pendingOp[u]
                   /\ slog'[u] = slog[u]
            /\ acceptPending' = acceptPending
            /\ op' = "none"
            /\ pc' = pc
            /\ visits' = visits]_vars
    /\ [](mainPc = "run" => acceptPending = 1)

\* C16 witness: one session was abandoned after a failed read, one after a
\* failed write, a third one is still being served and an accept is armed
C16_Witness ==
    \E s, u, v \in Sessions :
        /\ slog[s] = ReadErrOrder
        /\ slog[u] = WriteErrOrder
        /\ pendingOp[v] = "write"
        /\ mainPc = "run"
        /\ acceptPending = 1

\* C17: a session that waits for a pending read or write, or that is closed,
\* holds no Scoped Handle; whenever the event loop is between two handlers no
\* handle is outstanding and all size_ resources are idle.
C17_NoHandleAcrossAsyncBoundary ==
    /\ \A s \in Sessions :
           (pendingOp[s] # "none" \/ life[s] # "alive") => ~HoldsHandle(s)
    /\ mainPc = "run" =>
           /\ OutstandingHandles = {}
           /\ Len(connections_) = size_
           /\ op = "none"

\* C17 witness: a session waits for its write and holds nothing while another
\* session holds a handle inside its GetCount, and a third was abandoned
C17_Witness ==
    \E s, u, v \in Sessions :
        /\ pendingOp[s] = "write"
        /\ HoldsHandle(u)
        /\ pc[LoopThread] = "holding"
        /\ slog[v] = ReadErrOrder

\* C18: after the completion of its write a session does nothing but close:
\* no read, no write, no Data Service call; it is destroyed when its last
\* completion handler has returned, and never while a read or write of it is
\* pending; a destroyed session never changes again.
C18_ReleasedAfterLastHandler ==
    /\ [](\A s \in Sessions :
            /\ pendingOp[s] # "none" => life[s] = "alive" /\ refs[s] >= 1
            /\ life[s] = "destroyed" =>
                   /\ refs[s] = 0
                   /\ pendingOp[s] = "none"
                   /\ slog[s][Len(slog[s])] = "close"
            /\ life[s] = "alive" => pendingOp[s] # "none" \/ cur = s)
    /\ [](mainPc = "wr_end" => op = "none" /\ pc[LoopThread] = "idle")
    /\ [][\A s \in Sessions :
            /\ ("write_ok" \in Range(slog[s]) \/ "write_err" \in Range(slog[s])) =>
                   /\ slog'[s] \in {slog[s], Append(slog[s], "close")}
                   /\ pendingOp'[s] = "none"
            /\ life[s] = "destroyed" =>
                   /\ life'[s] = life[s]
                   /\ refs'[s] = refs[s]
                   /\ pendingOp'[s] = pendingOp[s]
                   /\ slog'[s] = slog[s]]_vars
    /\ [][(mainPc \in {"wr_end", "rd_end"} /\ mainPc' = "run"
             /\ pendingOp[cur] = "none") => life'[cur] = "destroyed"]_vars

\* C18 witness: the write handler of a session is returning, the session is
\* still alive with its handler as the only owner, and another session is
\* already destroyed
C18_Witness ==
    \E s, u \in Sessions :
        /\ mainPc = "wr_end"
        /\ cur = s
        /\ life[s] = "alive"
        /\ refs[s] = 1
        /\ slog[u] = OkOrder

\* C19: a failed accept marks no visit and creates no session, and its
\* handler arms exactly one new accept; at most one accept is armed at any
\* time, and whenever the event loop is between two handlers one is armed,
\* whatever the number of failed accepts and of active sessions.
C19_AcceptorRearmsAfterFailure ==
    /\ [](acceptPending <= 1)
    /\ [](mainPc = "run" => acceptPending = 1)
    /\ [][(mainPc \in {"acc_check", "acc_rearm"} /\ ec = "err" /\ mainPc' # mainPc) =>
            /\ visits' = visits
            /\ accepted' = accepted
            /\ life' = life
            /\ slog' = slog
            /\ op' = "none"
            /\ pc' = pc
            /\ mainPc = "acc_check" => mainPc' = "acc_rearm"
            /\ mainPc = "acc_rearm" =>
                   /\ acceptPending = 0
                   /\ acceptPending' = 1
                   /\ mainPc' = "run"]_vars

\* C19 witness: two sessions are active, no read or write handler has run
\* yet, the last handler was that of a failed accept and an accept is armed
C19_Witness ==
    /\ mainPc = "run"
    /\ ec = "err"
    /\ acceptPending = 1
    /\ accepted = 2
    /\ \A s \in 1..2 : slog[s] = <<"markvisit", "create", "start", "read", "arm">>

\* C20: for every accepted connection the steps are taken in this order:
\* MarkVisit returns, the session is created, Start is called and issues the
\* read, the next accept is armed, the read completes, GetCount returns, the
\* write is issued and completes, the socket is closed (after a failed read
\* or write nothing but the close follows); one visit is recorded per
\* accepted connection.
C20_StepOrder ==
    /\ \A s \in Sessions :
           \/ IsPrefix(slog[s], OkOrder)
           \/ IsPrefix(slog[s], ReadErrOrder)
           \/ IsPrefix(slog[s], WriteErrOrder)
    /\ Cardinality({s \in Sessions : slog[s] # <<>>}) <= visits
    /\ visits <= accepted
    /\ mainPc \notin {"acc_check", "acc_mark"} =>
           /\ visits = accepted
           /\ Cardinality({s \in Sessions : slog[s] # <<>>}) = accepted

\* C20 witness: all accepted connections were served to the end
C20_Witness ==
    /\ accepted = MaxSessions
    /\ visits = MaxSessions
    /\ \A s \in Sessions : slog[s] = OkOrder

\* the positions of main once an exception has left the try block
ExitPcs == {"unwind", "main_catch", "exited"}

\* C21: a failed statement propagates out of the Data Service operation and
\* nothing catches it before main: when it is raised by GetCount in DoWrite,
\* no write was or is issued for that session, the exception leaves the read
\* handler and io_context.run(), and from then on no accept, read or write
\* handler runs: pending operations are only dropped and sessions only closed.
C21_QueryFailureStopsServing ==
    /\ [][(exc /\ op # "none" /\ op' = "none") => mainPc' = "unwind"]_vars
    /\ [][(op = "GetCount" /\ txn = "open" /\ txn' = "failed") =>
            /\ mainPc = "wr_getcount"
            /\ "write" \notin Range(slog[cur])
            /\ pendingOp[cur] = "none"]_vars
    /\ [][(exc \/ mainPc \in ExitPcs) =>
            /\ accepted' = accepted
            /\ visits' = visits
            /\ acceptPending' <= acceptPending
            /\ mainPc' \notin {"run"} \cup (HandlerPcs \ {mainPc})
            /\ \A s \in Sessions :
                   /\ slog'[s] \in {slog[s], Append(slog[s], "close")}
                   /\ pendingOp'[s] \in {pendingOp[s], "none"}]_vars
    /\ [](mainPc \in {"main_catch", "exited"} =>
            /\ acceptPending = 0
            /\ \A s \in Sessions : pendingOp[s] = "none" /\ life[s] # "alive")

\* C21 witness: the GetCount of one session failed after its read, no
\* response was written, another session that was waiting for its request was
\* closed with it, and main has exited
C21_Witness ==
    \E s, u \in Sessions :
        /\ mainPc = "exited"
        /\ opLog = <<"begin", "exec_failed", "end">>
        /\ slog[s] = <<"markvisit", "create", "start", "read", "arm", "read_ok", "close">>
        /\ slog[u] = <<"markvisit", "create", "start", "read", "arm", "close">>

\* -------------------------------------------- claims about the Data Service
\* C22: on an empty store GetCount returns the number of completed MarkVisit
\* calls: the table holds one row per completed MarkVisit whenever none is in
\* progress, also after MarkVisit calls of several threads overlapped, and a
\* GetCount that no MarkVisit overlaps returns exactly that number.
C22_CountEqualsCompletedMarks ==
    /\ []((\A u \in Clients : call[u] # "MarkVisit") => visits = marksDone)
    /\ [][\A t \in Clients :
            (call[t] = "GetCount" /\ call'[t] = "none" /\ ~fail[t] /\ atCall[t].quiet)
                => (ret'[t] = atCall[t].done /\ ret'[t] = marksDone)]_vars

\* C22 witness: two MarkVisit calls of different threads overlapped, both
\* completed, and the GetCount called after them returned 2
C22_Witness ==
    /\ marksDone = 2
    /\ call[1] = "none" /\ ret[1] = 2
    /\ atCall[1].quiet /\ atCall[1].done = 2
    /\ call[2] = "none" /\ ~atCall[2].quiet

\* C24: the number of rows changes only at the commit of a MarkVisit, by
\* exactly one each time; no step of a GetCount or an Initialize changes it;
\* a GetCount never returns less than a GetCount that returned before it was
\* called.
C24_CounterChangesOnlyByMarkVisit ==
    /\ [][visits' # visits =>
            /\ visits' = visits + 1
            /\ \E t \in Clients : /\ call[t] = "MarkVisit"
                                  /\ work[t] = "executed"
                                  /\ work'[t] = "committed"]_vars
    /\ [][\A t \in Clients :
            (call[t] = "MarkVisit" /\ work[t] = "executed" /\ work'[t] = "committed")
                => visits' = visits + 1]_vars
    /\ [][\A t \in Clients :
            (call[t] = "GetCount" /\ call'[t] = "none" /\ ~fail[t])
                => ret'[t] >= atCall[t].floor]_vars

\* C24 witness: a GetCount returned 0, then a MarkVisit completed after an
\* Initialize that changed nothing, and the next GetCount returned 1
C24_Witness ==
    /\ initsDone = 1 /\ marksDone = 1 /\ visits = 1
    /\ call[1] = "none" /\ ret[1] = 0
    /\ call[2] = "none" /\ ret[2] = 1 /\ atCall[2].floor = 0 /\ atCall[2].done = 1
    /\ maxRet = 1

\* C25: Initialize can be called any number of times: it never fails, also
\* when the table exists and holds rows, no step of it changes the number of
\* rows, and the table exists from its first commit on.
C25_InitializeIdempotent ==
    /\ [](\A t \in Clients : call[t] = "Initialize" => ~fail[t] /\ work[t] # "failed")
    /\ [][\A t \in Clients :
            (call[t] = "Initialize" /\ (work'[t] # work[t] \/ call'[t] # call[t]))
                => visits' = visits]_vars
    /\ [][schema => schema']_vars
    /\ [][\A t \in Clients :
            (call[t] = "Initialize" /\ call'[t] = "none")
                => schema /\ initsDone' = initsDone + 1]_vars

\* C25 witness: a second Initialize has committed while a visit is recorded
C25_Witness ==
    \E t \in Clients :
        /\ call[t] = "Initialize"
        /\ work[t] = "committed"
        /\ initsDone >= 1
        /\ marksDone >= 1
        /\ visits >= 1

\* C23: GetCount returns 0 and raises no error when the store holds no visit
\* rows: when the count query answers 0 and also when its answer has no rows
\* at all.
C23_ZeroWhenNoRows ==
    [][\A t \in Clients :
         (/\ call[t] = "GetCount"
          /\ pc[t] = "idle"
          /\ work[t] = "closed"
          /\ ~fail[t]
          /\ res[t] \in {<<>>, <<<<to_string(0)>>>>}
          /\ (call'[t] # call[t] \/ fail'[t] # fail[t]))
             => (~fail'[t] /\ ret'[t] = 0)]_vars

\* ------------------------------------------ claims about the configuration
\* the integers a configured text can be read as
IntegersOf(s) ==
    (IF LexicalCastInt(s).ok THEN {LexicalCastInt(s).val} ELSE {})
        \cup (IF Stoi(s).ok THEN {Stoi(s).val} ELSE {})

\* the size the pool is to have: num_connections when it is positive,
\* otherwise the configured size, 10 when none is configured
ConfiguredSizes ==
    IF cfgIn.num > 0 THEN {cfgIn.num}
    ELSE IF cfgIn.present /\ cfgIn.name = "CONNECTION_POOL_SIZE"
    THEN IntegersOf(cfgIn.text)
    ELSE {kDefaultConnectionPoolSize}

\* C26: the size PostgresDatabase gives to its pool is num_connections when
\* that is positive and otherwise the configured size (10 by default), and it
\* is an integer >= 1, whatever is configured.
C26_PoolSizeIsPositive ==
    cfgPc = "sized" =>
        /\ sizeArg # ToUint64(0)
        /\ \E n \in ConfiguredSizes : n >= 1 /\ sizeArg = ToUint64(n)

\* C30: GetInt returns the integer value of the parameter or the default
\* value and nothing else, also when the configured text is no integer.
C30_GetIntValueOrDefault ==
    cfgPc \in {"got", "sized"} =>
        got \in (IF cfgIn.present THEN IntegersOf(cfgIn.text) ELSE {})
                    \cup {DefaultOf[cfgIn.name]}

\* C31: after Put(name, v), Has(name) is true and GetString(name) returns v,
\* also for a name that already had a value from the file, the environment
\* or an earlier Put.
C31_PutSetsValue ==
    puts # <<>> =>
        /\ Has(puts[Len(puts)].name)
        /\ GetString(puts[Len(puts)].name, <<>>) = puts[Len(puts)].value

\* ----------------------------------------------- claims about the response
\* the lines of a response: its pieces between the line breaks
RECURSIVE Lines(_)
Lines(r) ==
    IF \A i \in 1..Len(r) : r[i] # CRLF THEN <<r>>
    ELSE LET i == CHOOSE j \in 1..Len(r) :
                      r[j] = CRLF /\ \A k \in 1..(j - 1) : r[k] # CRLF
         IN <<SubSeq(r, 1, i - 1)>> \o Lines(SubSeq(r, i + 1, Len(r)))

\* r is a status line, h header lines, a blank line and a body that ends with
\* the number n
HasStructure(r, h, n) ==
    LET L == Lines(r)
    IN /\ Len(L) = h + 3
       /\ L[1] = <<"HTTP/1.1 200 OK">>
       /\ \A i \in 2..(h + 1) : L[i] # <<>>
       /\ L[h + 2] = <<>>
       /\ Len(L[h + 3]) >= 2
       /\ AsUint64(Tail(L[h + 3])) = n

\* C27 as stated: the single response of a connection is a status line, two
\* headers, a blank line and a body containing the count that GetCount
\* returned.
C27_ResponseHasTwoHeaders ==
    [][\A s \in Sessions :
         response'[s] # response[s] =>
             /\ response[s] = <<>>
             /\ visit_count = visits
             /\ HasStructure(response'[s], 2, visit_count)]_vars

\* C27 amended: the single response of a connection is a status line, three
\* headers (Content-Type, Content-Length, Connection), a blank line and a body
\* containing the count that GetCount returned, which is the number of visits
\* recorded.
C27_ResponseStructure ==
    [][\A s \in Sessions :
         response'[s] # response[s] =>
             /\ response[s] = <<>>
             /\ visit_count = visits
             /\ HasStructure(response'[s], 3, visit_count)]_vars

\* C27 witness: the response of the second connection, with the count 2, was
\* written
C27_Witness ==
    \E s \in Sessions :
        /\ response[s] # <<>>
        /\ response[s][Len(response[s])] = "2"
        /\ "write_ok" \in Range(slog[s])

\* ------------------------------------- claims about the program as wired
\* C32: in the program as main wires it, the one thread of the event loop
\* makes every Data Service call inside a startup step or a callback, so at
\* most one Scoped Handle is outstanding at any instant, every Acquire finds
\* all size_ resources idle and goes on without waiting, and no callback is
\* ever blocked in Acquire.
C32_OneHandleNoWaiting ==
    /\ [](Cardinality(OutstandingHandles) <= 1)
    /\ [](pc[LoopThread] \in InAcquire => mainPc \in DOMAIN CallSites)
    /\ []((size_ >= 1 /\ pc[LoopThread] \in {"acq_lock", "acq_wait_pred"}) =>
            Len(connections_) = size_)
    /\ [][pc[LoopThread] = "acq_wait_pred" => pc'[LoopThread] = "acq_take"]_vars
    /\ [](mainPc \in HandlerPcs => LoopThread \notin (Blocked \cup cvWaiters))

\* C32 witness: with pool size 1, the accept handler of a later connection
\* is in the Acquire of its MarkVisit while an earlier session waits for its
\* read, and the resource is idle
C32_Witness ==
    /\ size_ = 1
    /\ mainPc = "acc_mark"
    /\ op = "MarkVisit"
    /\ pc[LoopThread] = "acq_take"
    /\ connections_ # <<>>
    /\ \E s \in Alive : s # cur /\ pendingOp[s] = "read"

\* C33: no caller ever holds more than one Scoped Handle: an operation of
\* the Data Service enters Acquire once, at its beginning, when it holds
\* nothing, and has released its handle when it returns; so a thread that
\* waits in Acquire never holds a resource itself.
C33_OneHandlePerCaller ==
    /\ [](\A t \in Clients :
            /\ Cardinality(Held(t)) <= 1
            /\ pc[t] \in InAcquire => Held(t) = {} /\ work[t] = "none"
            /\ call[t] = "none" => Held(t) = {} /\ pc[t] = "idle"
            /\ t \in cvWaiters => conn_[t] = NULL)
    /\ [][\A t \in Clients :
            /\ (pc[t] # "acq_lock" /\ pc'[t] = "acq_lock") =>
                   call[t] = "none" /\ call'[t] # "none"
            /\ (call[t] # "none" /\ call'[t] = "none") =>
                   Held(t) = {} /\ work[t] = "closed"]_vars

\* C33 witness: with a pool of one resource, a thread holds the handle of
\* its operation while another thread waits in Acquire with nothing in hand
C33_Witness ==
    \E t, u \in Clients :
        /\ call[t] = "MarkVisit"
        /\ work[t] = "executed"
        /\ Held(t) # {}
        /\ call[u] = "GetCount"
        /\ u \in cvWaiters
        /\ Held(u) = {}

\* C34: when the statement or the commit of a Data Service operation
\* fails, the failure reaches the caller and nothing is committed, the
\* transaction is ended before the handle is destroyed, and the handle is
\* destroyed all the same: when the failed operation is left, the resource
\* is idle again and idle + outstanding = size_.
C34_FailedOperationReleases ==
    /\ [][(txn # "failed" /\ txn' = "failed") =>
            exc' /\ "commit" \notin Range(opLog')]_vars
    /\ [][(exc /\ op # "none") =>
            /\ schema' = schema /\ visits' = visits
            /\ "commit" \notin Range(opLog')
            /\ (pc[LoopThread] = "holding" /\ pc'[LoopThread] # "holding") =>
                   txn = "closed"
            /\ op' = "none" =>
                   /\ mainPc' = "unwind"
                   /\ exc'
                   /\ OutstandingHandles = {}
                   /\ Len(connections_) = size_]_vars
    /\ []((exc /\ op # "none") =>
            Len(connections_) + Cardinality(OutstandingHandles) = size_)

\* C34 witness: the commit of the MarkVisit of an accepted connection has
\* failed, the operation has been left by the exception and the resources
\* are all idle
C34_Witness ==
    /\ mainPc = "unwind"
    /\ exc
    /\ cur # NoSession
    /\ opLog = <<"begin", "exec", "commit_failed", "end">>
    /\ OutstandingHandles = {}
    /\ Len(connections_) = size_

\* the resources that are idle or in an outstanding handle, counted
IdlePlusOutstanding == Len(connections_) + Cardinality(OutstandingHandles)

\* C35: the handle has given its resource to the parameter of Release before
\* Release runs; when Release fails before it appends, the resource is
\* neither idle nor in a handle afterwards: idle + outstanding drops by one
\* and never rises again, so after one failed Release it stays at size_ - 1
\* or below: the pool has lost the resource for good.
C35_FailedReleaseLosesResource ==
    /\ [](\A t \in Threads : pc[t] \in {"rel_lock", "rel_push"} =>
            conn_[dtorOf[t]] = NULL /\ relArg[t] # NULL)
    /\ [][\A t \in Threads :
            (poolState = "ready" /\ pc[t] \in {"rel_lock", "rel_push"}
                /\ pc'[t] = "dtor_catch") =>
                /\ relArg[t] \notin AllResources'
                /\ IdlePlusOutstanding' = IdlePlusOutstanding - 1]_vars
    /\ [][(poolState = "ready" /\ poolState' = "ready") =>
            /\ AllResources' \subseteq AllResources
            /\ IdlePlusOutstanding' <= IdlePlusOutstanding]_vars
    /\ [](poolState = "ready" =>
            /\ IdlePlusOutstanding = Cardinality(AllResources)
            /\ (diag => IdlePlusOutstanding <= size_ - 1))

\* C35 witness: a Release of a pool of two resources has failed and the
\* failure was swallowed; every thread is idle again and one resource is
\* left in the idle collection
C35_Witness ==
    /\ poolState = "ready"
    /\ size_ = 2
    /\ diag
    /\ \A t \in Threads : pc[t] = "idle"
    /\ OutstandingHandles = {}
    /\ Len(connections_) = 1

\* C36: when MarkVisit fails in the accept handler of an accepted
\* connection, no session exists for that connection and none is created
\* later, the accept that the handler consumed is not replaced by a new one,
\* and the failure leaves the handler and the event loop: main unwinds and
\* never runs a handler again.
C36_FailedMarkVisitEndsAccepting ==
    /\ [][(op = "MarkVisit" /\ txn # "failed" /\ txn' = "failed") =>
            /\ mainPc = "acc_mark" /\ mainPc' = "acc_mark"
            /\ cur = accepted
            /\ life[cur] = "unborn" /\ slog[cur] = <<>>]_vars
    /\ []((op = "MarkVisit" /\ exc) =>
            acceptPending = 0 /\ life[cur] = "unborn" /\ pendingOp[cur] = "none")
    /\ [][(op = "MarkVisit" /\ exc /\ op' = "none") =>
            mainPc' = "unwind" /\ exc']_vars
    /\ [][(mainPc \in ExitPcs) =>
            /\ \A s \in Sessions :
                   /\ life[s] = "unborn" => life'[s] = "unborn"
                   /\ Range(slog'[s]) \cap {"create", "arm"} \subseteq Range(slog[s])
            /\ acceptPending' = 0
            /\ mainPc' \in ExitPcs]_vars

\* C36 witness: the MarkVisit of the second accepted connection failed: the
\* first session was still waiting for its request and was closed, the
\* second connection never got a session, main has exited
C36_Witness ==
    /\ mainPc = "exited"
    /\ accepted = 2
    /\ opLog = <<"begin", "exec_failed", "end">>
    /\ slog[1] = <<"markvisit", "create", "start", "read", "arm", "close">>
    /\ slog[2] = <<>>
    /\ life[2] = "unborn"
    /\ acceptPending = 0

\* C37: from an empty store, the count in the response of a session is at
\* least the number of connections accepted up to and including its own, so
\* at least 1, and at most the number of connections accepted when the
\* response is formed.
C37_CountBetweenOwnAndAccepted ==
    /\ [][\A s \in Sessions :
            (response[s] = <<>> /\ response'[s] # <<>>) =>
                /\ \E n \in s..accepted : response'[s] = Response(n)
                /\ visit_count >= 1]_vars
    /\ [](\A s \in Sessions :
            response[s] # <<>> => \E n \in s..accepted : response[s] = Response(n))

\* C37 witness: two connections were accepted before the first session made
\* its GetCount: the response of the first session says 2, that of the
\* second says 2 as well
C37_Witness ==
    /\ accepted = 2
    /\ response[1] = Response(2)
    /\ response[2] = Response(2)

\* C38: the first accept is armed by the constructor of Server after its
\* Initialize has returned without a failure, so the schema exists whenever
\* an accept is armed or a connection accepted, and no MarkVisit and no
\* GetCount is ever executed without it.
C38_InitializeBeforeFirstAccept ==
    /\ [][(~everArmed /\ everArmed') =>
            /\ mainPc = "server_accept"
            /\ schema
            /\ op = "none"
            /\ ~exc
            /\ ~startupFailed]_vars
    /\ []((everArmed \/ acceptPending > 0 \/ accepted > 0) => schema)
    /\ [](op \in {"MarkVisit", "GetCount"} => schema /\ everArmed)

\* C38 witness: the statement of the MarkVisit of the first connection has
\* been executed, on a store whose schema exists
C38_Witness ==
    /\ op = "MarkVisit"
    /\ txn = "executed"
    /\ accepted = 1
    /\ schema
    /\ visits = 0

\* C39: the response data handed to the asynchronous write stays alive and
\* unchanged from the start of the write until its completion handler runs:
\* while the write of a session is pending its buffer is valid, and what a
\* successful write has sent is the response.
C39_ResponseOutlivesWrite ==
    \A s \in Sessions :
        /\ pendingOp[s] = "write" => buffer[s] = "valid"
        /\ sent[s] \in {<<>>, response[s]}

\* ------------------------------------------------ claims about ResolveNested

\* the names of the placeholders of a value, and the maps given to the run
RECURSIVE NamesIn(_)
NamesIn(s) ==
    IF ~HasMatch(s) THEN {}
    ELSE {MatchName(s)} \cup NamesIn(SubSeq(s, MatchEnd(s) + 1, Len(s)))
Given == Merged(map_env, map_file)

\* the keys whose values a key's value refers to, directly or through others
RECURSIVE RefersTo(_, _)
RefersTo(k, n) ==
    LET direct == NamesIn(Given[k]) \cap DOMAIN Given
    IN  IF n = 0 THEN direct
        ELSE direct \cup UNION {RefersTo(j, n - 1) : j \in direct}
Circular == \E k \in DOMAIN Given : k \in RefersTo(k, Cardinality(Keys))
AllDefined == \A k \in DOMAIN Given : NamesIn(Given[k]) \subseteq DOMAIN Given
ResolveDone == rpc = "done" /\ DOMAIN map_resolved = DOMAIN Given

\* C28: whatever the two maps are, values that refer to each other
\* (A=${B}, B=${A}) or to themselves (A=${A}) included, ResolveNested ends
\* and returns a map with an entry for every key it was given. Stated for
\* the maps in which every placeholder names a key.
C28_CircularTerminates == (rpc = "start" /\ AllDefined) ~> ResolveDone

\* C29: a placeholder whose name is no key is left as it is: ResolveNested
\* ends, the resolved value still has that placeholder and no placeholder
\* of a key. Stated for the maps without circular references.
C29_UndefinedLeftAsIs ==
    (rpc = "start" /\ ~Circular /\ ~AllDefined)
        ~> (/\ ResolveDone
            /\ \A k \in DOMAIN Given :
                 /\ NamesIn(map_resolved[k]) \cap DOMAIN Given = {}
                 /\ NamesIn(Given[k]) \ DOMAIN Given \subseteq NamesIn(map_resolved[k]))

====
